---------------------------- MODULE Spec2Model ----------------------------
(***************************************************************************)
(* A model of the recording / encryption-at-rest / secure-deletion         *)
(* pipeline of the transcription application: the UI controller            *)
(* (transcribe_app/gui.py), the RecordingManager                           *)
(* (transcribe_app/recording_manager.py) and secure_delete                 *)
(* (transcribe_app/secure_delete.py).                                      *)
(*                                                                         *)
(* UI handlers run on the single UI thread, so each handler is one atomic  *)
(* action.  Everything the operating system decides (a file lock, a failed *)
(* write, a missing audio device) is an input of the action, drawn with \E.*)
(***************************************************************************)
EXTENDS Integers, Sequences, FiniteSets, TLC

VARIABLES
    fs,              \* the file system: path -> content, DOMAIN fs = existing files
    recorder,        \* MainWindow.recorder (a RecordingManager, or NoRecorder)
    audio_file,      \* MainWindow.audio_file (a path, or NoFile)
    encryption_key,  \* MainWindow.encryption_key (a key, or NoKey)
    status,          \* the last message of update_status
    alert,           \* the last QMessageBox shown ("" when none)
    buttons,         \* which of record_button / stop_button is enabled
    workers,         \* the running TranscriptionWorkers, each with its decrypted file
    nextBase,        \* number of temporary file names handed out so far
    nextKey,         \* number of keys generate_key has handed out so far
    last,            \* what the last operation did (its inputs and results)
    phase,           \* RecordingManager driven directly: its place in the life cycle
    er,              \* secure_delete run step by step: its local state
    dl,              \* delete_recording run step by step: its local state
    tw,              \* one TranscriptionWorker: its run() and stop() step by step
    cr,              \* encrypt_file / decrypt_file called directly: what was encrypted
    bm,              \* benchmark_dataset run sample by sample: its local state
    cp,              \* compare_medical_pipeline run sample by sample: its local state
    sb,              \* get_random_subset called directly: its arguments and result
    ta,              \* transcribe_audio run step by step: its local state
    nz,              \* a normalization pipeline applied to a string, and re-applied
    sc               \* process_sample's scoring of a transcript and a hypothesis

vars == <<fs, recorder, audio_file, encryption_key, status, alert, buttons,
          workers, nextBase, nextKey, last, phase, er, dl, tw, cr, bm,
          cp, sb, ta, nz, sc>>

---------------------------------------------------------------------------
(* Bounds of the model. *)

\* number of RecordingManager constructions (temporary files) explored
MaxRecordings == 2
\* largest number of captured PCM bytes explored
MaxRaw == 5
\* largest channel count of a negotiated format explored
MaxChannels == 2
\* number of times one RecordingManager is started when driven directly
MaxStarts == 2
\* largest file length handed to secure_delete run step by step
MaxSize == 3
\* largest `passes` handed to secure_delete run step by step
MaxPasses == 3
\* largest `max_attempts` handed to delete_recording
MaxAttempts == 3
\* number of TranscriptionWorkers running at once that is explored
MaxWorkers == 2
\* largest number of captured PCM bytes explored under the controller
UiMaxRaw == 2
\* largest channel count explored under the controller
UiMaxChannels == 1

(* Program constants. *)

\* bytes per sample: setsampwidth(2)
SampleWidth == 2
\* attempts of the retry loops in gui.py: range(3)
GuiAttempts == 3
\* encryption_key = None
NoKey == 0
\* audio_source = None
NoSource == 0

---------------------------------------------------------------------------
(* Paths.  A path is the random base name QTemporaryFile chose (a number)  *)
(* followed by its suffix, a sequence of dot-led tokens: "ab12.enc.wav" is *)
(* [base |-> b, ext |-> <<".enc", ".wav">>].  str.replace acts on the      *)
(* suffix; a base name holds letters only, so no pattern occurs in it.     *)

NoFile == [base |-> 0, ext |-> <<>>]

WavExt == <<".wav">>
EncExt == <<".enc", ".wav">>
DecExt == <<".dec", ".wav">>

\* python str.replace(pat, rep): every non-overlapping occurrence, left to right
RECURSIVE SeqReplace(_, _, _)
SeqReplace(s, pat, rep) ==
    IF Len(s) < Len(pat) THEN s
    ELSE IF SubSeq(s, 1, Len(pat)) = pat
         THEN rep \o SeqReplace(SubSeq(s, Len(pat) + 1, Len(s)), pat, rep)
         ELSE <<Head(s)>> \o SeqReplace(Tail(s), pat, rep)

StrReplace(path, pat, rep) == [path EXCEPT !.ext = SeqReplace(path.ext, pat, rep)]

\* plain_wav.replace(".wav", ".enc.wav")
EncryptedName(plain) == StrReplace(plain, WavExt, EncExt)
\* audio_file.replace(".enc.wav", ".dec.wav")
DecryptedName(audio) == StrReplace(audio, EncExt, DecExt)

TempName(b) == [base |-> b, ext |-> WavExt]

---------------------------------------------------------------------------
(* File contents.  kind: "empty" (a fresh temporary file), "wav",          *)
(* "cipher" (a complete Fernet token), "partial" (a ciphertext cut short), *)
(* "random" (overwritten by secure_delete).  For a wav: channels, hdr (the *)
(* data length its header declares) and payload (the PCM bytes after the   *)
(* header).  For a cipher: key, the fields of the plaintext it encrypts    *)
(* and, in `of`, the kind of that plaintext; "tampered" is a ciphertext    *)
(* some of whose bytes were changed.                                       *)

Content(k, ch, h, p, key) ==
    [kind |-> k, channels |-> ch, hdr |-> h, payload |-> p, key |-> key,
     of |-> "none"]

EmptyFile == Content("empty", 0, 0, 0, NoKey)

Exists(f, path) == path \in DOMAIN f

WriteFile(f, path, c) == [q \in DOMAIN f \cup {path} |-> IF q = path THEN c ELSE f[q]]

RemoveFile(f, path) == [q \in DOMAIN f \ {path} |-> f[q]]

\* wave.Wave_read.getnframes(): the declared data length in whole frames
WavFrames(c) == c.hdr \div (c.channels * SampleWidth)

\* wave.Wave_write.writeframes(data) then close(): every byte of data is written
\* and the header is patched to the number of bytes written
WaveRewrite(ch, rawLen) == Content("wav", ch, rawLen, rawLen, NoKey)

---------------------------------------------------------------------------
(* RecordingManager (recording_manager.py).  A manager is a record; its    *)
(* captured bytes live in its temporary file, after the 44-byte header.    *)

\* audio_source: 0 is None, n > 0 is the n-th QAudioSource the manager made
NoRecorder ==
    [exists |-> FALSE, base |-> 0, temp_open |-> FALSE,
     audio_source |-> NoSource, sources |-> 0, channels |-> 0,
     recording_start_time |-> FALSE]

\* what can go wrong while a RecordingManager is constructed
CtorEnv == {"ok", "no_temp", "no_inputs", "no_default", "hdr_fail"}

\* RecordingManager.__init__: ctor is the first thing that fails ("ok": nothing),
\* ch the channel count of the negotiated format (1 when the target format is
\* supported, else the device's preferred channel count)
Construct(f, b, ctor, ch) ==
    IF ctor = "no_temp"
    THEN [raised |-> TRUE, rec |-> NoRecorder, fs |-> f]
    ELSE IF ctor \in {"no_inputs", "no_default", "hdr_fail"}
    THEN [raised |-> TRUE, rec |-> NoRecorder,
          fs |-> WriteFile(f, TempName(b), EmptyFile)]
    ELSE [raised |-> FALSE,
          rec |-> [exists |-> TRUE, base |-> b, temp_open |-> TRUE,
                   audio_source |-> NoSource, sources |-> 0, channels |-> ch,
                   recording_start_time |-> FALSE],
          fs |-> WriteFile(f, TempName(b), Content("wav", ch, 0, 0, NoKey))]

\* RecordingManager.start_recording: defaultOk is whether defaultAudioInput()
\* yields a device at this moment
StartRecording(r, defaultOk) ==
    IF r.audio_source # NoSource THEN r
    ELSE IF ~defaultOk THEN r
    ELSE [r EXCEPT !.audio_source = r.sources + 1, !.sources = r.sources + 1,
                   !.recording_start_time = TRUE]

\* what can go wrong while a recording is stopped
StopEnv == {"ok", "early_raise", "rewrite_fail", "verify_fail", "vanished"}

StopResult(ret, raised, r, f, rawLen, frames) ==
    [ret |-> ret, raised |-> raised, rec |-> r, fs |-> f,
     rawLen |-> rawLen, frames |-> frames]

\* `if raw_len == 0`: nothing was captured
EmptyCapture(rawLen) == rawLen = 0

\* the check for a rewritten file without frames left out
ZeroFramesNever(frames) == FALSE

\* `if frames == 0`: the rewritten file reports no frame
ZeroFrames(frames) == frames = 0

\* RecordingManager.stop_recording
StopRecording(r, f, env) ==
    LET path == TempName(r.base)
        closed == [r EXCEPT !.audio_source = NoSource, !.temp_open = FALSE,
                            !.recording_start_time = FALSE]
        rawLen == IF r.temp_open /\ Exists(f, path) THEN f[path].payload ELSE 0
        rewritten == WriteFile(f, path, WaveRewrite(r.channels, rawLen))
        frames == WavFrames(rewritten[path])
    IN  IF r.audio_source = NoSource THEN StopResult(NoFile, FALSE, r, f, 0, 0)
        ELSE IF env = "early_raise" THEN StopResult(NoFile, TRUE, closed, f, 0, 0)
        ELSE IF EmptyCapture(rawLen) THEN StopResult(NoFile, FALSE, closed, f, 0, 0)
        ELSE IF env = "rewrite_fail" THEN StopResult(NoFile, FALSE, closed, f, rawLen, 0)
        ELSE IF ZeroFrames(frames)
        THEN StopResult(NoFile, FALSE, closed, rewritten, rawLen, frames)
        ELSE IF env = "verify_fail"
        THEN StopResult(NoFile, FALSE, closed, rewritten, rawLen, frames)
        ELSE IF env = "vanished"
        THEN StopResult(NoFile, FALSE, closed, RemoveFile(f, path), rawLen, frames)
        ELSE StopResult(path, FALSE, closed, rewritten, rawLen, frames)

\* what stop_recording does to the temporary file's handles, in order:
\* "close" is self.temp_file.close(), "open_wb" and "open_rb" are the
\* wave.open calls of the rewrite and of the verification
StopEvents(r, f, env) ==
    LET path == TempName(r.base)
        rawLen == IF r.temp_open /\ Exists(f, path) THEN f[path].payload ELSE 0
        atEnd == IF r.temp_open THEN <<"close">> ELSE <<>>
    IN  IF r.audio_source = NoSource THEN <<>>
        ELSE IF env = "early_raise" THEN atEnd
        ELSE IF EmptyCapture(rawLen) THEN atEnd
        ELSE IF env = "rewrite_fail" THEN <<"close", "open_wb">>
        ELSE <<"close", "open_wb", "close_wb", "open_rb", "close_rb">>

---------------------------------------------------------------------------
(* security.py.  A key is a positive number; generate_key draws a fresh    *)
(* one (32 random bytes).                                                  *)

\* a generate_key that hands out the first key again
generate_key_again(n) == 1

\* generate_key(): 32 fresh random bytes; n is the number of keys handed out
\* so far, the keys 1..n
generate_key(n) == n + 1

\* where a file operation of encrypt_file / decrypt_file can fail
CryptoEnv == {"ok", "read_fail", "write_fail"}

\* Fernet(key).encrypt(data): a token that holds data, authenticated under key
FernetEncrypt(c, key) == [c EXCEPT !.kind = "cipher", !.key = key, !.of = c.kind]

\* a token check that accepts a token made under any key
FernetValidAnyKey(c, key) == c.kind = "cipher"

\* Fernet(key).decrypt(token) verifies the HMAC: the token is complete,
\* unchanged and was made under this key (else InvalidToken)
FernetValid(c, key) == c.kind = "cipher" /\ c.key = key

\* a decryption that hands every plaintext back as audio
FernetDecryptAsWav(c) == [c EXCEPT !.kind = "wav", !.key = NoKey, !.of = "none"]

\* Fernet(key).decrypt(token) of a valid token: the data it holds
FernetDecrypt(c) == [c EXCEPT !.kind = c.of, !.key = NoKey, !.of = "none"]

\* an encrypt_file that removes its input once the ciphertext is written
EncryptFileMoving(f, inp, out, key, env) ==
    IF ~Exists(f, inp) \/ env = "read_fail"
    THEN [raised |-> "io", fs |-> f]
    ELSE IF env = "write_fail"
    THEN [raised |-> "io", fs |-> WriteFile(f, out, Content("partial", 0, 0, 0, key))]
    ELSE [raised |-> "none",
          fs |-> RemoveFile(WriteFile(f, out, FernetEncrypt(f[inp], key)), inp)]

\* encrypt_file(input_filename, output_filename, key)
EncryptFile(f, inp, out, key, env) ==
    IF ~Exists(f, inp) \/ env = "read_fail"
    THEN [raised |-> "io", fs |-> f]
    ELSE IF env = "write_fail"
    THEN [raised |-> "io", fs |-> WriteFile(f, out, Content("partial", 0, 0, 0, key))]
    ELSE [raised |-> "none", fs |-> WriteFile(f, out, FernetEncrypt(f[inp], key))]

\* decrypt_file(input_filename, output_filename, key)
DecryptFile(f, inp, out, key, env) ==
    IF ~Exists(f, inp) \/ env = "read_fail"
    THEN [raised |-> "io", fs |-> f]
    ELSE IF ~FernetValid(f[inp], key)
    THEN [raised |-> "token", fs |-> f]
    ELSE IF env = "write_fail"
    THEN [raised |-> "io", fs |-> WriteFile(f, out, Content("partial", 0, 0, 0, NoKey))]
    ELSE [raised |-> "none", fs |-> WriteFile(f, out, FernetDecrypt(f[inp]))]

---------------------------------------------------------------------------
(* The retry loops of gui.py.  outs[k] is what the k-th attempt meets.     *)

\* what one os.remove meets
RemoveEnv == {"ok", "perm", "other"}

\* for attempt in range(3): os.remove(path); PermissionError: next attempt;
\* any other exception: give up
RECURSIVE RemoveLoop(_, _, _, _)
RemoveLoop(f, path, outs, attempt) ==
    IF attempt > GuiAttempts \/ ~Exists(f, path) THEN f
    ELSE IF outs[attempt] = "ok" THEN RemoveFile(f, path)
    ELSE IF outs[attempt] = "perm" THEN RemoveLoop(f, path, outs, attempt + 1)
    ELSE f

---------------------------------------------------------------------------
(* secure_delete (secure_delete.py), as one call.  io is where the call    *)
(* meets an I/O failure: at open(path, "r+b") (the file is locked), at a   *)
(* write of an overwrite pass, or at os.remove.                            *)

EraseEnv == {"ok", "open_fail", "write_fail", "remove_fail"}

\* the exception a failure raises inside secure_delete's try block
ExcOf(io) ==
    IF io = "ok" THEN "none"
    ELSE IF io = "write_fail" THEN "other"
    ELSE "perm"

\* `except Exception as e: print(...)`: the exception the caller of
\* secure_delete sees when exc was raised inside the try block
Swallowed(exc) == "none"

\* secure_delete(file_path) with the default passes=3
SecureDelete(f, path, io) ==
    IF ~Exists(f, path) THEN [raised |-> "none", fs |-> f]
    ELSE IF io = "ok" THEN [raised |-> "none", fs |-> RemoveFile(f, path)]
    ELSE IF io = "open_fail" THEN [raised |-> Swallowed(ExcOf(io)), fs |-> f]
    ELSE [raised |-> Swallowed(ExcOf(io)),
          fs |-> WriteFile(f, path, [f[path] EXCEPT !.kind = "random"])]

\* what one secure_delete attempt of handle_secure_delete meets
LockEnv == {"ok", "open_fail"}

\* handle_secure_delete: for attempt in range(3): secure_delete(file_path) ...
RECURSIVE SecureDeleteLoop(_, _, _, _)
SecureDeleteLoop(f, path, sched, attempt) ==
    LET r == SecureDelete(f, path, sched[attempt])
    IN  IF r.raised = "none"
        THEN [fs |-> r.fs, attempts |-> attempt, warned |-> FALSE]
        ELSE IF r.raised = "perm"
        THEN IF attempt < GuiAttempts
             THEN SecureDeleteLoop(r.fs, path, sched, attempt + 1)
             ELSE [fs |-> r.fs, attempts |-> attempt, warned |-> FALSE]
        ELSE [fs |-> r.fs, attempts |-> attempt, warned |-> TRUE]

\* handle_secure_delete: `if os.path.exists(file_path)` around the loop
SecureDeleteIfExists(f, path, sched) ==
    IF Exists(f, path) THEN SecureDeleteLoop(f, path, sched, 1)
    ELSE [fs |-> f, attempts |-> 0, warned |-> FALSE]

---------------------------------------------------------------------------
(* MainWindow (gui.py).  Each handler is one action.                       *)

Buttons(rec, stop) == [record |-> rec, stop |-> stop]

\* the step-by-step state of the worker, the crypto calls and the benchmark
sideVars == <<tw, cr, bm, cp, sb, ta, nz, sc>>

\* the state of the benchmark helpers run on their own
pureVars == <<cp, sb, ta, nz, sc>>

\* the variables the controller's handlers never touch
otherVars == <<phase, er, dl, tw, cr, bm, cp, sb, ta, nz, sc>>

Schedules(env) == [1..GuiAttempts -> env]

\* the attempts of a loop that is not entered meet nothing
AllOk == [k \in 1..GuiAttempts |-> "ok"]

\* MainWindow.handle_record
handle_record(ctor, ch, defaultOk, stopEnv) ==
    /\ buttons.record
    /\ nextBase < MaxRecordings
    /\ LET old == IF recorder.exists
                  THEN StopRecording(recorder, fs, stopEnv).fs
                  ELSE fs
           c == Construct(old, nextBase + 1, ctor, ch)
           r == StartRecording(c.rec, defaultOk)
       IN  /\ fs' = c.fs
           /\ recorder' = IF c.raised THEN NoRecorder ELSE r
           /\ buttons' = IF c.raised THEN Buttons(TRUE, FALSE) ELSE Buttons(FALSE, TRUE)
           /\ status' = IF c.raised THEN status ELSE "Recording..."
           /\ alert' = IF c.raised THEN "Recording Error" ELSE ""
           /\ last' = [op |-> "handle_record", ctor |-> ctor,
                       defaultOk |-> defaultOk, raised |-> c.raised,
                       recording |-> (~c.raised /\ r.audio_source # NoSource)]
    /\ nextBase' = nextBase + 1
    /\ UNCHANGED <<audio_file, encryption_key, workers, nextKey, otherVars>>

\* the audio source writes one more captured PCM byte through the open
\* temporary file (as long as fewer than limit bytes were captured)
CaptureByte(limit) ==
    /\ recorder.exists /\ recorder.audio_source # NoSource /\ recorder.temp_open
    /\ LET path == TempName(recorder.base)
       IN  /\ Exists(fs, path)
           /\ fs[path].payload < limit
           /\ fs' = WriteFile(fs, path, [fs[path] EXCEPT !.payload = @ + 1])

\* capture while the controller's recorder records
Capture ==
    /\ CaptureByte(UiMaxRaw)
    /\ last' = [op |-> "capture"]
    /\ UNCHANGED <<recorder, audio_file, encryption_key, status, alert, buttons,
                   workers, nextBase, nextKey, otherVars>>

\* MainWindow.handle_stop
\* an except clause of handle_stop that leaves the key in place
KeyKeptOnFailure(key) == key

\* `self.encryption_key = None` in the except clause of handle_stop
KeyOnFailure(key) == NoKey

handle_stop(stopEnv, encEnv, outs) ==
    /\ buttons.stop
    /\ IF ~recorder.exists
       THEN /\ status' = "No active recording."
            /\ buttons' = Buttons(TRUE, FALSE)
            /\ alert' = ""
            /\ last' = [op |-> "handle_stop", outcome |-> "no_recorder"]
            /\ UNCHANGED <<fs, recorder, audio_file, encryption_key, nextKey>>
       ELSE LET s == StopRecording(recorder, fs, stopEnv)
                plain == s.ret
                failed == s.raised \/ plain = NoFile
                             \/ ~Exists(s.fs, plain) \/ WavFrames(s.fs[plain]) = 0
                key == generate_key(nextKey)
                enc == EncryptedName(plain)
                e == EncryptFile(s.fs, plain, enc, key, encEnv)
                removed == IF Exists(e.fs, enc)
                           THEN RemoveLoop(e.fs, plain, outs, 1)
                           ELSE e.fs
            IN  /\ recorder' = NoRecorder
                /\ IF failed
                   THEN /\ alert' = "Recording Error"
                        /\ audio_file' = NoFile
                        /\ encryption_key' = KeyOnFailure(encryption_key)
                        /\ fs' = s.fs
                        /\ last' = [op |-> "handle_stop", outcome |-> "failed",
                                    stopEnv |-> stopEnv,
                                    ret |-> s.ret, rawLen |-> s.rawLen,
                                    frames |-> s.frames, channels |-> recorder.channels]
                        /\ UNCHANGED <<status, buttons, nextKey>>
                   ELSE /\ buttons' = Buttons(TRUE, FALSE)
                        /\ encryption_key' = key
                        /\ nextKey' = key
                        /\ last' = [op |-> "handle_stop",
                                    outcome |-> IF e.raised = "none" THEN "encrypted"
                                                ELSE "fallback",
                                    stopEnv |-> stopEnv,
                                    ret |-> s.ret, rawLen |-> s.rawLen,
                                    frames |-> s.frames, channels |-> recorder.channels,
                                    payload |-> s.fs[plain].payload,
                                    key |-> key, handedOut |-> nextKey]
                        /\ IF e.raised = "none"
                           THEN /\ fs' = removed
                                /\ audio_file' = enc
                                /\ status' = "Recording encrypted and saved."
                                /\ alert' = ""
                           ELSE /\ fs' = e.fs
                                /\ audio_file' = plain
                                /\ status' = "Recording complete. Encrypting..."
                                /\ alert' = "Encryption Warning"
    /\ UNCHANGED <<workers, nextBase, otherVars>>

\* MainWindow.handle_transcribe: rmOk is whether the os.remove of a stale
\* decrypted file succeeds, startOk whether the worker thread could be started
handle_transcribe(rmOk, decEnv, startOk) ==
    /\ IF audio_file = NoFile \/ encryption_key = NoKey
       THEN /\ alert' = "No Recording"
            /\ last' = [op |-> "handle_transcribe", outcome |-> "no_recording"]
            /\ UNCHANGED <<fs, status, workers>>
       ELSE LET dec == DecryptedName(audio_file)
                cleaned == IF Exists(fs, dec) /\ rmOk THEN RemoveFile(fs, dec) ELSE fs
                d == DecryptFile(cleaned, audio_file, dec, encryption_key, decEnv)
            IN  IF d.raised # "none" \/ ~Exists(d.fs, dec)
                THEN /\ fs' = d.fs
                     /\ status' = "Decrypting for transcription..."
                     /\ alert' = "Decryption Error"
                     /\ last' = [op |-> "handle_transcribe",
                                 outcome |-> "decrypt_error", dec |-> dec]
                     /\ UNCHANGED workers
                ELSE IF startOk
                THEN /\ Len(workers) < MaxWorkers
                     /\ fs' = d.fs
                     /\ status' = "Transcribing..."
                     /\ alert' = ""
                     /\ workers' = Append(workers, [file |-> dec])
                     /\ last' = [op |-> "handle_transcribe",
                                 outcome |-> "started", dec |-> dec]
                ELSE /\ fs' = IF rmOk THEN RemoveFile(d.fs, dec) ELSE d.fs
                     /\ status' = "Transcribing..."
                     /\ alert' = "Transcription Error"
                     /\ last' = [op |-> "handle_transcribe",
                                 outcome |-> "start_error", dec |-> dec]
                     /\ UNCHANGED workers
    /\ UNCHANGED <<recorder, audio_file, encryption_key, buttons, nextBase, nextKey,
                   otherVars>>

\* a worker's thread ends: its `finished` signal runs
\* MainWindow.cleanup_decrypted_file on the file it was given
worker_finished(i, outs) ==
    /\ i \in 1..Len(workers)
    /\ fs' = RemoveLoop(fs, workers[i].file, outs, 1)
    /\ workers' = SubSeq(workers, 1, i - 1) \o SubSeq(workers, i + 1, Len(workers))
    /\ last' = [op |-> "cleanup_decrypted_file", file |-> workers[i].file]
    /\ UNCHANGED <<recorder, audio_file, encryption_key, status, alert, buttons,
                   nextBase, nextKey, otherVars>>

\* MainWindow.handle_secure_delete: sched1 / sched2 are what the attempts on the
\* encrypted file / on the decrypted file meet
handle_secure_delete(sched1, sched2) ==
    /\ IF audio_file = NoFile
       THEN /\ last' = [op |-> "handle_secure_delete", outcome |-> "nothing"]
            /\ UNCHANGED <<fs, audio_file, encryption_key, status, alert>>
       ELSE LET first == audio_file
                second == DecryptedName(audio_file)
                r1 == SecureDeleteIfExists(fs, first, sched1)
                r2 == SecureDeleteIfExists(r1.fs, second, sched2)
            IN  /\ fs' = r2.fs
                /\ status' = "Temporary audio files securely deleted."
                /\ alert' = IF r1.warned \/ r2.warned THEN "Deletion Warning" ELSE ""
                /\ audio_file' = NoFile
                /\ encryption_key' = NoKey
                /\ last' = [op |-> "handle_secure_delete", outcome |-> "deleted",
                            targets |-> <<first, second>>,
                            existed |-> <<Exists(fs, first), Exists(r1.fs, second)>>,
                            lockedFirst |-> (sched1[1] # "ok"),
                            freeLater |-> (\E k \in 2..GuiAttempts : sched1[k] = "ok"),
                            attempts |-> <<r1.attempts, r2.attempts>>]
    /\ UNCHANGED <<recorder, buttons, workers, nextBase, nextKey, otherVars>>

---------------------------------------------------------------------------
(* The application: the controller after construction, and its handlers.   *)

NoFiles == [q \in {} |-> EmptyFile]

ControllerInit ==
    /\ fs = NoFiles
    /\ recorder = NoRecorder
    /\ audio_file = NoFile
    /\ encryption_key = NoKey
    /\ status = ""
    /\ alert = ""
    /\ buttons = Buttons(TRUE, FALSE)
    /\ workers = <<>>
    /\ nextBase = 0
    /\ nextKey = 0
    /\ last = [op |-> "init"]

ErIdle == [pc |-> "idle"]
DlIdle == [pc |-> "idle"]
TwIdle == [pc |-> "idle"]
CrIdle == [pc |-> "idle"]
BmIdle == [pc |-> "idle"]
CpIdle == [pc |-> "idle"]
SbIdle == [pc |-> "idle"]
TaIdle == [pc |-> "idle"]
NzIdle == [pc |-> "idle"]
ScIdle == [pc |-> "idle"]

Init ==
    /\ ControllerInit
    /\ phase = "None"
    /\ er = ErIdle
    /\ dl = DlIdle
    /\ tw = TwIdle
    /\ cr = CrIdle
    /\ bm = BmIdle
    /\ cp = CpIdle
    /\ sb = SbIdle
    /\ ta = TaIdle
    /\ nz = NzIdle
    /\ sc = ScIdle

Next ==
    \/ \E ctor \in CtorEnv, ch \in 1..UiMaxChannels, defaultOk \in BOOLEAN,
          stopEnv \in StopEnv :
          handle_record(ctor, ch, defaultOk, stopEnv)
    \/ Capture
    \/ \E stopEnv \in StopEnv, encEnv \in CryptoEnv :
          \E outs \in IF stopEnv = "ok" /\ encEnv = "ok"
                       THEN Schedules(RemoveEnv) ELSE {AllOk} :
             handle_stop(stopEnv, encEnv, outs)
    \/ \E rmOk \in BOOLEAN, decEnv \in CryptoEnv, startOk \in BOOLEAN :
          handle_transcribe(rmOk, decEnv, startOk)
    \/ \E i \in 1..MaxWorkers, outs \in Schedules(RemoveEnv) : worker_finished(i, outs)
    \/ \E sched1 \in Schedules(LockEnv) :
          \E sched2 \in IF Exists(fs, DecryptedName(audio_file))
                         THEN Schedules(LockEnv) ELSE {AllOk} :
             handle_secure_delete(sched1, sched2)

Spec == Init /\ [][Next]_vars

---------------------------------------------------------------------------
(* A RecordingManager driven directly through its methods, in any order.   *)
(* phase is its place in the life cycle of section 4.1: "None" before any  *)
(* manager is constructed, "Idle" once constructed, "Recording" while it   *)
(* holds an audio source, "Ready" / "Failed" once stop_recording returned  *)
(* a path / returned None or raised.  stop_recording runs to its end in    *)
(* one step, so Stopped(Finalizing) is passed inside the step.             *)

uiVars == <<audio_file, encryption_key, status, alert, buttons, workers, nextKey>>

\* RecordingManager(parent)
MgrConstruct(ctor, ch) ==
    /\ nextBase < MaxRecordings
    /\ LET c == Construct(fs, nextBase + 1, ctor, ch)
       IN  /\ fs' = c.fs
           /\ recorder' = c.rec
           /\ phase' = IF c.raised THEN "None" ELSE "Idle"
           /\ last' = [op |-> "construct", raised |-> c.raised]
    /\ nextBase' = nextBase + 1
    /\ UNCHANGED <<uiVars, er, dl, sideVars>>

\* manager.start_recording()
MgrStart(defaultOk) ==
    /\ recorder.exists
    /\ recorder.sources < MaxStarts
    /\ recorder' = StartRecording(recorder, defaultOk)
    /\ phase' = IF recorder.audio_source = NoSource /\ recorder'.audio_source # NoSource
                THEN "Recording" ELSE phase
    /\ last' = [op |-> "start_recording", before |-> recorder, defaultOk |-> defaultOk]
    /\ UNCHANGED <<fs, nextBase, uiVars, er, dl, sideVars>>

\* the audio source writes one more captured byte
MgrCapture ==
    /\ CaptureByte(MaxRaw)
    /\ last' = [op |-> "capture"]
    /\ UNCHANGED <<recorder, phase, nextBase, uiVars, er, dl, sideVars>>

\* manager.stop_recording()
MgrStop(env) ==
    /\ recorder.exists
    /\ LET s == StopRecording(recorder, fs, env)
       IN  /\ recorder' = s.rec
           /\ fs' = s.fs
           /\ phase' = IF recorder.audio_source = NoSource THEN phase
                       ELSE IF s.ret # NoFile THEN "Ready" ELSE "Failed"
           /\ last' = [op |-> "stop_recording", before |-> recorder,
                       fsBefore |-> fs, ret |-> s.ret, raised |-> s.raised,
                       rawLen |-> s.rawLen, frames |-> s.frames,
                       channels |-> recorder.channels,
                       events |-> StopEvents(recorder, fs, env),
                       payload |-> IF s.ret # NoFile THEN s.fs[s.ret].payload ELSE 0]
    /\ UNCHANGED <<nextBase, uiVars, er, dl, sideVars>>

NextManager ==
    \/ \E ctor \in CtorEnv, ch \in 1..MaxChannels : MgrConstruct(ctor, ch)
    \/ \E defaultOk \in BOOLEAN : MgrStart(defaultOk)
    \/ MgrCapture
    \/ \E env \in StopEnv : MgrStop(env)

SpecManager == Init /\ [][NextManager]_vars

---------------------------------------------------------------------------
(* Properties of the controller (checked under Spec).                      *)

\* C1: once handle_stop has written the ciphertext of a recording, the
\* plaintext WAV of that recording is gone: a plaintext file and the complete
\* ciphertext made from it never both exist between handlers, whatever the
\* plaintext-removal attempts met.
C1_NoPlaintextBesideCiphertext ==
    \A p \in DOMAIN fs :
        ~(/\ p.ext = WavExt
          /\ Exists(fs, EncryptedName(p))
          /\ fs[EncryptedName(p)].kind = "cipher")

\* C2: when encrypt_file failed in handle_stop, the plaintext WAV kept as
\* audio_file stays on disk, through any number of handle_transcribe calls,
\* until handle_secure_delete.
C2_FallbackPlaintextKept ==
    (audio_file # NoFile /\ audio_file.ext = WavExt) => Exists(fs, audio_file)

\* C3: after a handle_secure_delete that reported "Temporary audio files
\* securely deleted." and reset audio_file and encryption_key, neither the
\* encrypted file nor the decrypted file exists, also when a file was locked.
C3_SecureDeleteRemovesFiles ==
    (last.op = "handle_secure_delete" /\ last.outcome = "deleted")
        => /\ audio_file = NoFile /\ encryption_key = NoKey
           /\ \A i \in 1..2 : ~Exists(fs, last.targets[i])

\* C5: handle_secure_delete retries an erase that met a file lock: a file
\* locked at the first attempt and unlocked at a later one of the 3 attempts
\* is attempted again and ends up deleted.
C5_LockedEraseIsRetried ==
    (/\ last.op = "handle_secure_delete" /\ last.outcome = "deleted"
     /\ last.existed[1] /\ last.lockedFirst /\ last.freeLater)
        => (last.attempts[1] > 1 /\ ~Exists(fs, last.targets[1]))

\* C7: stop_recording returns a path only when the captured payload is
\* non-empty and the rewritten WAV reports more than 0 frames; when nothing was
\* captured, when the rewrite reports 0 frames or when anything fails it
\* returns no path, and handle_stop then leaves audio_file and encryption_key
\* unset.
C7_ReadyOnlyWithFrames ==
    (last.op = "handle_stop" /\ last.outcome # "no_recorder")
        => /\ last.ret # NoFile => (last.rawLen > 0 /\ last.frames > 0)
           /\ last.stopEnv # "ok" => last.ret = NoFile
           /\ last.ret = NoFile <=> last.outcome = "failed"
           /\ last.outcome = "failed" =>
                  (audio_file = NoFile /\ encryption_key = NoKey)
           /\ last.outcome # "failed" =>
                  (audio_file # NoFile /\ encryption_key # NoKey)

\* C7 happens: bytes were captured, the rewritten file reports 0 frames, and
\* handle_stop ended with nothing set
C7_Witness ==
    /\ last.op = "handle_stop" /\ last.outcome = "failed"
    /\ last.stopEnv = "ok" /\ last.rawLen > 0 /\ last.frames = 0
    /\ audio_file = NoFile /\ encryption_key = NoKey

\* C9: with no audio input device, handle_record reports an error and no
\* session enters Recording, whether the device is missing when the
\* RecordingManager is constructed or when start_recording asks for it.
C9_NoDeviceIsReported ==
    (/\ last.op = "handle_record"
     /\ \/ last.ctor \in {"no_inputs", "no_default"}
        \/ ~last.defaultOk)
        => /\ alert = "Recording Error"
           /\ ~last.recording
           /\ status # "Recording..."

\* C17: every handle_stop that reaches the encryption step takes a fresh key
\* from generate_key (never one handed out before); the key is held in
\* encryption_key only: no file holds it, a file holds at most bytes encrypted
\* under it; handle_secure_delete and a failed handle_stop leave
\* encryption_key unset.
C17_KeyIsFreshAndDropped ==
    /\ (last.op = "handle_stop" /\ last.outcome \in {"encrypted", "fallback"})
           => /\ encryption_key = last.key
              /\ last.key # NoKey
              /\ last.key \notin 1..last.handedOut
    /\ \A p \in DOMAIN fs :
           /\ fs[p].kind \in {"empty", "wav", "cipher", "partial", "random"}
           /\ fs[p].key # NoKey => fs[p].kind \in {"cipher", "partial"}
    /\ last.op = "handle_secure_delete" => encryption_key = NoKey
    /\ (last.op = "handle_stop" /\ last.outcome = "failed") => encryption_key = NoKey

\* C17 happens: a second recording was encrypted, under a second key, and a
\* file of the first recording is still on disk
C17_Witness ==
    /\ last.op = "handle_stop" /\ last.outcome = "encrypted"
    /\ last.handedOut = 1 /\ encryption_key = 2
    /\ \E p \in DOMAIN fs : p.base = 1

\* C11: at most one TranscriptionWorker runs at any time: a handle_transcribe
\* made while an earlier transcription still runs starts no second worker.
C11_OneWorkerAtATime == Len(workers) <= 1

---------------------------------------------------------------------------
(* Properties of the RecordingManager (checked under SpecManager).         *)

\* C6: a file whose path stop_recording returned has frame_count > 0 and a
\* payload of exactly frame_count * channels * 2 bytes, for every captured
\* byte count and every channel count.
C6_PayloadMatchesFrames ==
    (last.op = "stop_recording" /\ last.ret # NoFile)
        => /\ last.frames > 0
           /\ last.payload = last.frames * last.channels * SampleWidth

LifeCycle ==
    {<<"Idle", "Recording">>, <<"Recording", "Ready">>, <<"Recording", "Failed">>}

\* C8: one RecordingManager only moves Idle -> Recording -> Ready | Failed;
\* start_recording while recording changes nothing (the audio source is kept);
\* stop_recording with no recording in progress returns None and changes
\* nothing; a stop_recording right after a stop_recording returns None.
C8_LifeCycle ==
    [][/\ (recorder.exists /\ recorder'.base = recorder.base /\ phase' # phase)
            => <<phase, phase'>> \in LifeCycle
       /\ (last'.op = "start_recording" /\ recorder.audio_source # NoSource)
            => (recorder' = recorder /\ fs' = fs)
       /\ (last'.op = "stop_recording" /\ recorder.audio_source = NoSource)
            => (last'.ret = NoFile /\ ~last'.raised /\ recorder' = recorder /\ fs' = fs)
       /\ (last.op = "stop_recording" /\ last'.op = "stop_recording")
            => last'.ret = NoFile
      ]_vars

\* the three guards of C8 alone (start while recording, stop while not
\* recording, stop after stop)
C8_Guards ==
    [][/\ (last'.op = "start_recording" /\ recorder.audio_source # NoSource)
            => (recorder' = recorder /\ fs' = fs)
       /\ (last'.op = "stop_recording" /\ recorder.audio_source = NoSource)
            => (last'.ret = NoFile /\ ~last'.raised /\ recorder' = recorder /\ fs' = fs)
       /\ (last.op = "stop_recording" /\ last'.op = "stop_recording")
            => last'.ret = NoFile
      ]_vars

---------------------------------------------------------------------------
(* secure_delete(file_path, passes) step by step (secure_delete.py).       *)
(* er.pc is the place in the function; er.failed the I/O failure met, if   *)
(* any; er.result how the call ended for its caller.  er.size is the       *)
(* length of the file, er.pos the position of the open file object, er.log *)
(* the overwrite passes made so far, each with the offset it started at    *)
(* and the number of bytes it wrote.  er.calls counts the consecutive      *)
(* calls on the same path and er.first is how the first of them ended.     *)

\* number of consecutive secure_delete calls on one path
MaxCalls == 2

ctlVars == <<fs, recorder, audio_file, encryption_key, status, alert, buttons,
             workers, nextBase, nextKey, last, phase>>

NoCall == [existed |-> FALSE, exists |-> FALSE, failed |-> "ok"]

\* `if not os.path.exists(file_path): return`, else
\* file_size = os.path.getsize(file_path)
EraseEntry(exists, size, passes, calls, first) ==
    IF ~exists
    THEN [pc |-> "done", exists |-> FALSE, existed |-> FALSE, orig |-> 0,
          size |-> 0, passes |-> passes, done |-> 0, random |-> FALSE,
          failed |-> "ok", result |-> "returned", pos |-> 0, log |-> <<>>,
          calls |-> calls, first |-> first]
    ELSE [pc |-> "open", exists |-> TRUE, existed |-> TRUE, orig |-> size,
          size |-> size, passes |-> passes, done |-> 0, random |-> FALSE,
          failed |-> "ok", result |-> "none", pos |-> 0, log |-> <<>>,
          calls |-> calls, first |-> first]

\* secure_delete is called on some path
EraseCall(exists, size, passes) ==
    /\ er.pc \in {"idle", "done"}
    /\ er' = EraseEntry(exists, size, passes, 1, NoCall)
    /\ UNCHANGED <<ctlVars, dl, sideVars>>

\* secure_delete is called once more on the path of the call that just ended
EraseAgain(passes) ==
    /\ er.pc = "done"
    /\ er.calls < MaxCalls
    /\ er' = EraseEntry(er.exists, er.size, passes, er.calls + 1,
                        IF er.calls = 1
                        THEN [existed |-> er.existed, exists |-> er.exists,
                              failed |-> er.failed]
                        ELSE er.first)
    /\ UNCHANGED <<ctlVars, dl, sideVars>>

\* a seek that leaves the file position where it is
SeekIgnored(pos, offset) == pos

\* f.seek(offset): the new file position
Seek(pos, offset) == offset

\* with open(file_path, "r+b") as f
EraseOpen(ok) ==
    /\ er.pc = "open"
    /\ er' = IF ok
             THEN [er EXCEPT !.pc = IF er.passes = 0 THEN "remove" ELSE "pass"]
             ELSE [er EXCEPT !.pc = "except", !.failed = "open_fail"]
    /\ UNCHANGED <<ctlVars, dl, sideVars>>

\* one overwrite pass: f.seek(0); f.write(os.urandom(file_size)).  A write at
\* position p of n bytes extends the file to p + n when that is past its end.
ErasePass(ok) ==
    /\ er.pc = "pass"
    /\ LET start == Seek(er.pos, 0)
           end == start + er.orig
       IN  er' = IF ok
                 THEN [er EXCEPT !.done = @ + 1, !.random = TRUE,
                                 !.pos = end,
                                 !.log = Append(@, <<start, er.orig>>),
                                 !.size = IF end > @ THEN end ELSE @,
                                 !.pc = IF er.done + 1 = er.passes
                                        THEN "remove" ELSE "pass"]
                 ELSE [er EXCEPT !.pc = "except", !.failed = "write_fail",
                                 !.pos = start, !.random = TRUE]
    /\ UNCHANGED <<ctlVars, dl, sideVars>>

\* an os.remove that returns without removing the file
EraseRemoveSkipped(ok) ==
    /\ er.pc = "remove"
    /\ er' = [er EXCEPT !.pc = "done", !.result = "returned"]
    /\ UNCHANGED <<ctlVars, dl, sideVars>>

\* os.remove(file_path)
EraseRemove(ok) ==
    /\ er.pc = "remove"
    /\ er' = IF ok
             THEN [er EXCEPT !.pc = "done", !.exists = FALSE, !.result = "returned"]
             ELSE [er EXCEPT !.pc = "except", !.failed = "remove_fail"]
    /\ UNCHANGED <<ctlVars, dl, sideVars>>

\* except Exception as e: print(...)
EraseExcept ==
    /\ er.pc = "except"
    /\ er' = [er EXCEPT !.pc = "done",
                        !.result = IF Swallowed(ExcOf(er.failed)) = "none"
                                   THEN "returned" ELSE "raised"]
    /\ UNCHANGED <<ctlVars, dl, sideVars>>

NextErase ==
    \/ \E exists \in BOOLEAN, size \in 0..MaxSize, passes \in 0..MaxPasses :
          EraseCall(exists, size, passes)
    \/ \E passes \in 0..MaxPasses : EraseAgain(passes)
    \/ \E ok \in BOOLEAN : EraseOpen(ok)
    \/ \E ok \in BOOLEAN : ErasePass(ok)
    \/ \E ok \in BOOLEAN : EraseRemove(ok)
    \/ EraseExcept

SpecErase == Init /\ [][NextErase]_vars

\* C4: secure_delete on an existing file ends with an error its caller sees
\* whenever the open, an overwrite pass or the removal failed; a failed erase
\* never ends as a normal return.
C4_FailedEraseIsRaised ==
    (er.pc = "done" /\ er.failed # "ok") => er.result = "raised"

\* C18: secure_delete on a nonexistent path returns normally, does nothing
\* and creates nothing; on an existing file, with no I/O failure, the file
\* no longer exists afterwards; so a second call on the same path is the
\* no-op and leaves the state of the first.
C18_EraseIsIdempotent ==
    er.pc = "done" =>
        /\ ~er.existed =>
               /\ er.result = "returned" /\ ~er.exists
               /\ er.log = <<>> /\ er.size = 0
        /\ (er.existed /\ er.failed = "ok") => (er.result = "returned" /\ ~er.exists)
        /\ (er.calls = 2 /\ er.first.existed /\ er.first.failed = "ok") =>
               /\ ~er.existed /\ er.failed = "ok"
               /\ er.exists = er.first.exists

\* C18 happens: a second call on the path of a file the first call erased
C18_Witness ==
    /\ er.pc = "done" /\ er.calls = 2
    /\ er.first.existed /\ er.first.failed = "ok" /\ ~er.first.exists
    /\ ~er.existed /\ ~er.exists /\ er.result = "returned"

\* C19: secure_delete(path, passes) on an existing file makes exactly
\* `passes` overwrite passes, each from offset 0 and of exactly the original
\* length, so the file length never changes; the file is removed only after
\* all passes; if the open or a pass fails the file is not removed.
C19_PassesThenRemove ==
    (er.pc # "idle" /\ er.existed) =>
        /\ Len(er.log) <= er.passes
        /\ \A i \in 1..Len(er.log) : er.log[i] = <<0, er.orig>>
        /\ er.size = er.orig
        /\ (er.pc = "remove" \/ ~er.exists) =>
               (Len(er.log) = er.passes /\ er.failed = "ok")
        /\ er.failed \in {"open_fail", "write_fail"} => er.exists

\* C19 happens: a file of 2 or more bytes was removed after 3 passes
C19_Witness ==
    /\ er.pc = "done" /\ er.existed /\ ~er.exists
    /\ er.passes = 3 /\ er.orig >= 2 /\ Len(er.log) = 3

---------------------------------------------------------------------------
(* RecordingManager.delete_recording(filename, max_attempts, delay) step   *)
(* by step (recording_manager.py).  dl.log is what the call did so far:    *)
(* "close" (the open temporary file is closed, then time.sleep(0.1)),      *)
(* "test" (the open(filename, 'rb') lock test), "remove" (os.remove) and   *)
(* "sleep" (time.sleep(delay)); dl.locked counts the attempts that ended   *)
(* in PermissionError; dl.how is the branch the call ended in.             *)

\* what the lock test or os.remove of one attempt meets
AttemptEnv == {"ok", "perm", "notfound", "other"}

\* sleeping after every failed attempt, the last one too
SleepsAlways(attempt, n) == TRUE

\* `if attempt < max_attempts - 1: time.sleep(delay)` (attempt counts from 0)
SleepsAfter(attempt, n) == attempt < n - 1

\* delete_recording is called; the loop `for attempt in range(max_attempts)`
\* ends at once when max_attempts is 0
DlCall(n, exists, tempOpen) ==
    /\ dl.pc \in {"idle", "done"}
    /\ dl' = IF ~exists
             THEN [pc |-> "done", n |-> n, attempt |-> 0, atEntry |-> FALSE,
                   exists |-> FALSE, log |-> <<>>, locked |-> 0,
                   result |-> "True", how |-> "absent"]
             ELSE [pc |-> IF n = 0 THEN "done" ELSE "loop", n |-> n, attempt |-> 0,
                   atEntry |-> TRUE, exists |-> TRUE,
                   log |-> IF tempOpen THEN <<"close">> ELSE <<>>, locked |-> 0,
                   result |-> IF n = 0 THEN "False" ELSE "none",
                   how |-> IF n = 0 THEN "exhausted" ELSE "none"]
    /\ UNCHANGED <<ctlVars, er, sideVars>>

\* the attempt ended in PermissionError: sleep unless it was the last one,
\* then the next attempt, or `return False` after the loop
DlLocked(did) ==
    LET slept == IF SleepsAfter(dl.attempt, dl.n) THEN <<"sleep">> ELSE <<>>
        over == dl.attempt + 1 >= dl.n
    IN  [dl EXCEPT !.log = @ \o did \o slept,
                   !.locked = @ + 1,
                   !.attempt = @ + 1,
                   !.pc = IF over THEN "done" ELSE "loop",
                   !.result = IF over THEN "False" ELSE "none",
                   !.how = IF over THEN "exhausted" ELSE "none"]

DlReturn(did, result, how, exists) ==
    [dl EXCEPT !.log = @ \o did, !.pc = "done", !.result = result, !.how = how,
               !.exists = exists]

\* one pass of the loop body: test is what open(filename, 'rb') meets, rm what
\* os.remove(filename) meets
DlAttempt(test, rm) ==
    /\ dl.pc = "loop"
    /\ dl' = IF test = "perm" THEN DlLocked(<<"test">>)
             ELSE IF test = "notfound" THEN DlReturn(<<"test">>, "True", "gone", FALSE)
             ELSE IF test = "other" THEN DlReturn(<<"test">>, "False", "error", dl.exists)
             ELSE IF rm = "ok"
             THEN DlReturn(<<"test", "remove">>, "True", "removed", FALSE)
             ELSE IF rm = "perm" THEN DlLocked(<<"test", "remove">>)
             ELSE IF rm = "notfound"
             THEN DlReturn(<<"test", "remove">>, "True", "gone", FALSE)
             ELSE DlReturn(<<"test", "remove">>, "False", "error", dl.exists)
    /\ UNCHANGED <<ctlVars, er, sideVars>>

DlStep == \E test \in AttemptEnv, rm \in AttemptEnv : DlAttempt(test, rm)

NextDelete ==
    \/ \E n \in 0..MaxAttempts, exists \in BOOLEAN, tempOpen \in BOOLEAN :
          DlCall(n, exists, tempOpen)
    \/ DlStep

\* the thread that runs delete_recording keeps running: a sleep returns and
\* the loop body is executed
SpecDelete == Init /\ [][NextDelete]_vars /\ WF_vars(DlStep)

Count(log, what) == Cardinality({i \in 1..Len(log) : log[i] = what})

DeleteBounded ==
    dl.pc # "idle" =>
        /\ Count(dl.log, "test") <= dl.n
        /\ Count(dl.log, "remove") <= dl.n
        /\ Count(dl.log, "sleep") <= (IF dl.n = 0 THEN 0 ELSE dl.n - 1)
        /\ \A i \in 1..Len(dl.log) :
              dl.log[i] = "sleep" =>
                 /\ i > 1 /\ dl.log[i - 1] \in {"test", "remove"}
                 /\ IF i < Len(dl.log) THEN dl.log[i + 1] = "test"
                    ELSE dl.pc = "loop"
        /\ dl.pc = "done" =>
              /\ dl.result \in {"True", "False"}
              /\ (dl.atEntry /\ dl.locked = dl.n) =>
                     (dl.result = "False" /\ dl.exists)
              /\ dl.how \in {"absent", "removed", "gone"} =>
                     (dl.result = "True" /\ ~dl.exists)
              /\ ~dl.atEntry => (dl.how = "absent" /\ dl.log = <<>>)

\* C10: delete_recording makes at most max_attempts removal attempts and then
\* ends; it sleeps `delay` only between two consecutive attempts, never after
\* the last; a file locked at all max_attempts attempts gives False with the
\* file still on disk, and no exception; it gives True when the file is absent
\* at entry, removed by an attempt, or found already deleted.
C10_DeleteTerminates ==
    /\ []DeleteBounded
    /\ (dl.pc = "loop") ~> (dl.pc = "done")

\* C10 happens: the file stayed locked through all of 3 or more attempts
C10_Witness ==
    /\ dl.pc = "done" /\ dl.atEntry /\ dl.n >= 3 /\ dl.locked = dl.n
    /\ dl.result = "False" /\ dl.exists
    /\ Count(dl.log, "sleep") = dl.n - 1

---------------------------------------------------------------------------
(* One TranscriptionWorker (transcription_worker.py).  run() executes on   *)
(* the worker thread, one statement per step; stop() executes on the UI    *)
(* thread, its two statements as two steps, at any moment after the worker *)
(* was constructed.  tw.log is every signal emitted so far, in order, with *)
(* the method that emitted it; tw.stopAt is the length of the log when     *)
(* stop() set the flag (-1: stop() was not called).  A log entry's val is  *)
(* the integer a model_progress signal carries (-1 for the other signals). *)

EmitValue(w, sig, by, val) ==
    [w EXCEPT !.log = Append(@, [sig |-> sig, by |-> by, val |-> val])]

Emit(w, sig, by) == EmitValue(w, sig, by, -1)

\* run's `return` inside the try block: the finally clause still runs
TwReturn(w) == [w EXCEPT !.pc = "finally"]

\* TranscriptionWorker(audio_file, model_name): _is_running = True
TwCreate ==
    /\ tw.pc \in {"idle", "done"}
    /\ tw' = [pc |-> "created", running |-> TRUE, stop |-> "no", stopAt |-> -1,
              log |-> <<>>, transcript |-> "none"]
    /\ UNCHANGED <<ctlVars, er, dl, cr, bm, pureVars>>

\* worker.start(): the thread begins run()
TwStart ==
    /\ tw.pc = "created"
    /\ tw' = [tw EXCEPT !.pc = "check1"]
    /\ UNCHANGED <<ctlVars, er, dl, cr, bm, pureVars>>

\* the three `if not self._is_running: return` of run(); the first one stands
\* before the try block, so it ends run() without the finally clause
TwCheck ==
    /\ tw.pc \in {"check1", "check2", "check3"}
    /\ tw' = IF tw.running
             THEN [tw EXCEPT !.pc = IF tw.pc = "check1" THEN "model_info"
                                    ELSE IF tw.pc = "check2" THEN "loading"
                                    ELSE "progress100"]
             ELSE IF tw.pc = "check1" THEN [tw EXCEPT !.pc = "done"]
             ELSE TwReturn(tw)
    /\ UNCHANGED <<ctlVars, er, dl, cr, bm, pureVars>>

\* model_info = self._get_model_info(); if not model_info: return
TwModelInfo(valid) ==
    /\ tw.pc = "model_info"
    /\ tw' = IF valid THEN [tw EXCEPT !.pc = "check2"]
             ELSE TwReturn(Emit(tw, "transcription_error", "run"))
    /\ UNCHANGED <<ctlVars, er, dl, cr, bm, pureVars>>

\* the place after an emitting statement of run()
TwAfter(pc) ==
    CASE pc = "loading" -> "initializing"
      [] pc = "initializing" -> "progress0"
      [] pc = "progress0" -> "progress50"
      [] pc = "progress50" -> "transcribing"
      [] pc = "transcribing" -> "transcribe"
      [] pc = "progress100" -> "complete_msg"
      [] pc = "complete_msg" -> "complete"
      [] pc = "complete" -> "finally"
      [] pc = "except" -> "finally"

\* the signal an emitting statement of run() emits
TwSignal(pc) ==
    IF pc \in {"loading", "initializing", "transcribing", "complete_msg"}
    THEN "progress"
    ELSE IF pc \in {"progress0", "progress50", "progress100"} THEN "model_progress"
    ELSE IF pc = "complete" THEN "transcription_complete"
    ELSE "transcription_error"

\* the integer an emitting statement of run() passes to model_progress
TwValue(pc) ==
    CASE pc = "progress0" -> 0
      [] pc = "progress50" -> 50
      [] pc = "progress100" -> 100
      [] OTHER -> -1

\* one emitting statement of run(): _emit_model_loading_progress, "Transcribing
\* audio...", the three emits of the result, the emit of an except clause
TwEmit ==
    /\ tw.pc \in {"loading", "initializing", "progress0", "progress50",
                  "transcribing", "progress100", "complete_msg", "complete", "except"}
    /\ tw' = [EmitValue(tw, TwSignal(tw.pc), "run", TwValue(tw.pc))
                EXCEPT !.pc = TwAfter(tw.pc)]
    /\ UNCHANGED <<ctlVars, er, dl, cr, bm, pureVars>>

TwTranscribeUnchecked(outcome) ==
    /\ tw.pc = "transcribe"
    /\ tw' = IF outcome # "raise"
             THEN [tw EXCEPT !.pc = "check3", !.transcript = outcome]
             ELSE [tw EXCEPT !.pc = "except"]
    /\ UNCHANGED <<ctlVars, er, dl, cr, bm, pureVars>>

\* transcript = transcribe_audio(...); if not transcript: raise RuntimeError
TwTranscribe(outcome) ==
    /\ tw.pc = "transcribe"
    /\ tw' = IF outcome = "text"
             THEN [tw EXCEPT !.pc = "check3", !.transcript = "text"]
             ELSE [tw EXCEPT !.pc = "except"]
    /\ UNCHANGED <<ctlVars, er, dl, cr, bm, pureVars>>

\* finally: if not self._is_running: self.model_progress.emit(0)
TwFinally ==
    /\ tw.pc = "finally"
    /\ tw' = [(IF tw.running THEN tw ELSE EmitValue(tw, "model_progress", "run", 0))
                EXCEPT !.pc = "done"]
    /\ UNCHANGED <<ctlVars, er, dl, cr, bm, pureVars>>

\* stop(), first statement: self._is_running = False
TwStopFlag ==
    /\ tw.pc # "idle"
    /\ tw.stop = "no"
    /\ tw' = [tw EXCEPT !.running = FALSE, !.stop = "flag", !.stopAt = Len(tw.log)]
    /\ UNCHANGED <<ctlVars, er, dl, cr, bm, pureVars>>

\* stop(), second statement: self.progress.emit("Transcription cancelled.")
TwStopEmit ==
    /\ tw.pc # "idle"
    /\ tw.stop = "flag"
    /\ tw' = [Emit(tw, "progress", "stop") EXCEPT !.stop = "returned"]
    /\ UNCHANGED <<ctlVars, er, dl, cr, bm, pureVars>>

NextWorker ==
    \/ TwCreate
    \/ TwStart
    \/ TwCheck
    \/ \E valid \in BOOLEAN : TwModelInfo(valid)
    \/ TwEmit
    \/ \E outcome \in {"text", "empty", "raise"} : TwTranscribe(outcome)
    \/ TwFinally
    \/ TwStopFlag
    \/ TwStopEmit

SpecWorker == Init /\ [][NextWorker]_vars

\* the signals run() emitted after stop() had set the flag
AfterStop ==
    IF tw.pc = "idle" \/ tw.stopAt < 0 THEN {}
    ELSE {tw.log[i].sig : i \in {j \in (tw.stopAt + 1)..Len(tw.log) :
                                    tw.log[j].by = "run"}}

\* C12: once stop() has been called, run() emits no transcription_complete
\* and no further progress or model_progress signal, under every interleaving
\* of stop() with run().
C12_StoppedWorkerIsSilent ==
    AfterStop \cap {"transcription_complete", "progress", "model_progress"} = {}

---------------------------------------------------------------------------
(* encrypt_file and decrypt_file called directly (security.py), as the     *)
(* test suite and handle_stop / handle_transcribe call them: a plaintext   *)
(* x.wav, its ciphertext x.enc.wav and the decrypted x.dec.wav, three      *)
(* different paths.  cr remembers what the ciphertext on disk was made     *)
(* from: cr.plain the bytes encrypt_file read, cr.key the key it was       *)
(* given, cr.intact whether the file still is what encrypt_file wrote.     *)

\* number of keys drawn from generate_key
MaxKeys == 2
\* largest payload of a plaintext audio file handed to encrypt_file
MaxPlain == 2

PlainPath == TempName(1)
CipherPath == EncryptedName(PlainPath)
OutPath == DecryptedName(CipherPath)

\* the byte contents a plaintext file is given: no byte at all, audio of
\* several lengths, arbitrary bytes
PlainContents ==
    {EmptyFile, Content("random", 0, 0, 0, NoKey)}
        \cup {WaveRewrite(1, n) : n \in 0..MaxPlain}

cryptoOther == <<recorder, audio_file, encryption_key, status, alert, buttons,
                 workers, nextBase, nextKey, phase, er, dl, tw, bm, pureVars>>

\* the caller writes (or replaces) the plaintext file
CrWritePlain(c) ==
    /\ fs' = WriteFile(fs, PlainPath, c)
    /\ last' = [op |-> "write_plain"]
    /\ UNCHANGED <<cr, cryptoOther>>

\* encrypt_file(PlainPath, CipherPath, key)
CrEncrypt(key, env) ==
    LET r == EncryptFile(fs, PlainPath, CipherPath, key, env)
    IN  /\ fs' = r.fs
        /\ cr' = IF r.raised = "none"
                 THEN [pc |-> "encrypted", plain |-> fs[PlainPath], key |-> key,
                       intact |-> TRUE]
                 ELSE IF r.fs = fs THEN cr
                 ELSE [pc |-> "broken"]
        /\ last' = [op |-> "encrypt_file", key |-> key, env |-> env,
                    raised |-> r.raised, before |-> fs]
        /\ UNCHANGED cryptoOther

\* some bytes of the ciphertext file are changed behind the program's back
CrTamper ==
    /\ Exists(fs, CipherPath)
    /\ fs[CipherPath].kind = "cipher"
    /\ fs' = WriteFile(fs, CipherPath, [fs[CipherPath] EXCEPT !.kind = "tampered"])
    /\ cr' = [cr EXCEPT !.intact = FALSE]
    /\ last' = [op |-> "tamper"]
    /\ UNCHANGED cryptoOther

\* decrypt_file(CipherPath, OutPath, key)
CrDecrypt(key, env) ==
    LET r == DecryptFile(fs, CipherPath, OutPath, key, env)
    IN  /\ fs' = r.fs
        /\ last' = [op |-> "decrypt_file", key |-> key, env |-> env,
                    raised |-> r.raised, before |-> fs]
        /\ UNCHANGED <<cr, cryptoOther>>

NextCrypto ==
    \/ \E c \in PlainContents : CrWritePlain(c)
    \/ \E key \in 1..MaxKeys, env \in CryptoEnv : CrEncrypt(key, env)
    \/ CrTamper
    \/ \E key \in 1..MaxKeys, env \in CryptoEnv : CrDecrypt(key, env)

SpecCrypto == Init /\ [][NextCrypto]_vars

\* C13: decrypt_file with a key other than the one used to encrypt, or on a
\* tampered or cut-short ciphertext, raises the token error (InvalidToken, not
\* an OSError) and leaves the file system as it was: the output path is
\* neither created nor modified.
C13_FailedDecryptWritesNothing ==
    (/\ last.op = "decrypt_file"
     /\ Exists(last.before, CipherPath)
     /\ last.env # "read_fail"
     /\ \/ last.before[CipherPath].kind # "cipher"
        \/ last.before[CipherPath].key # last.key)
        => (last.raised = "token" /\ fs = last.before)

\* C13 happens: a decrypt with the wrong key of an intact ciphertext, while
\* an earlier decrypted output is on disk
C13_Witness ==
    /\ last.op = "decrypt_file" /\ last.raised = "token"
    /\ Exists(last.before, CipherPath)
    /\ last.before[CipherPath].kind = "cipher"
    /\ last.before[CipherPath].key # last.key
    /\ Exists(fs, OutPath)

C15_CiphertextIsAtomic ==
    last.op = "encrypt_file" =>
        \/ ~Exists(fs, CipherPath)
        \/ /\ Exists(last.before, CipherPath)
           /\ fs[CipherPath] = last.before[CipherPath]
        \/ /\ Exists(last.before, PlainPath)
           /\ fs[CipherPath] = FernetEncrypt(last.before[PlainPath], last.key)

\* C16: encrypt_file never modifies or removes its plaintext input, whether
\* it succeeds or fails at the read or at the write.
C16_PlaintextUntouched ==
    last.op = "encrypt_file" =>
        /\ Exists(fs, PlainPath) = Exists(last.before, PlainPath)
        /\ Exists(fs, PlainPath) => fs[PlainPath] = last.before[PlainPath]

\* C16 happens: an encrypt_file that failed while writing the ciphertext left
\* the plaintext in place, unchanged
C16_Witness ==
    /\ last.op = "encrypt_file" /\ last.raised = "io" /\ last.env = "write_fail"
    /\ Exists(last.before, PlainPath) /\ Exists(fs, PlainPath)
    /\ fs[PlainPath] = last.before[PlainPath]
    /\ cr.pc = "broken"

---------------------------------------------------------------------------
(* benchmark_dataset (benchmarks/benchmark_utils.py), one sample per step. *)
(* A sample is what processing it meets: whether the extractors yield an   *)
(* audio file and a transcript, whether get_duration_fn raises and the     *)
(* duration it gives, whether model_fn raises and the wall-clock time it   *)
(* takes, whether a transformation raises, and the normalized token lists: *)
(* ref and hyp tokens, dist their word edit distance.  WER and RTF are     *)
(* floats in the code; here they are hundredths, rounded down.             *)
(* bm.results is the list of result tuples; bm.calls / bm.divs are the     *)
(* samples for which model_fn was invoked / the division by the duration   *)
(* was made; bm.how is how the call ended: "returned" with bm.returned and *)
(* the printed bm.report, or "raised".                                     *)

\* largest number of samples of a benchmark run
MaxSamples == 3

\* a / b in hundredths
Ratio(a, b) == (a * 100) \div b

GoodSample ==
    [audio |-> TRUE, transcript |-> TRUE, durRaises |-> FALSE, dur |-> 1,
     modelRaises |-> FALSE, time |-> 1, scoreRaises |-> FALSE,
     ref |-> 2, hyp |-> 2, dist |-> 0]

SampleKinds ==
    {GoodSample,
     [GoodSample EXCEPT !.dur = 2, !.dist = 1],
     [GoodSample EXCEPT !.time = 2, !.hyp = 3, !.dist = 2],
     [GoodSample EXCEPT !.audio = FALSE],
     [GoodSample EXCEPT !.transcript = FALSE],
     [GoodSample EXCEPT !.durRaises = TRUE],
     [GoodSample EXCEPT !.dur = 0],
     [GoodSample EXCEPT !.dur = -1],
     [GoodSample EXCEPT !.modelRaises = TRUE],
     [GoodSample EXCEPT !.scoreRaises = TRUE],
     [GoodSample EXCEPT !.ref = 0, !.dist = 2],
     [GoodSample EXCEPT !.hyp = 0, !.dist = 2]}

\* jiwer.wer on two token lists: the edit distance over the number of
\* reference tokens; an empty reference is an error, an empty hypothesis is
\* not (every reference token counts as deleted)
wer(ref, hyp, dist) ==
    IF ref = 0 THEN [raised |-> TRUE, value |-> 0]
    ELSE [raised |-> FALSE, value |-> Ratio(dist, ref)]

\* a duration check that lets a duration of 0 through
NonPositiveStrict(d) == d < 0

\* `if duration <= 0`
NonPositive(d) == d <= 0

Outcome(raised, outcome, called, divided, w, rtf) ==
    [raised |-> raised, outcome |-> outcome, called |-> called,
     divided |-> divided, wer |-> w, rtf |-> rtf]

\* process_sample: get_duration_fn, model_fn and the division are outside the
\* try block, the transformations and wer inside it
process_sample(s) ==
    IF s.durRaises THEN Outcome(TRUE, "none", FALSE, FALSE, 0, 0)
    ELSE IF NonPositive(s.dur) THEN Outcome(FALSE, "None", FALSE, FALSE, 0, 0)
    ELSE IF s.modelRaises THEN Outcome(TRUE, "none", TRUE, FALSE, 0, 0)
    ELSE IF s.dur = 0 THEN Outcome(TRUE, "none", TRUE, TRUE, 0, 0)
    ELSE IF s.scoreRaises \/ wer(s.ref, s.hyp, s.dist).raised
    THEN Outcome(FALSE, "None", TRUE, TRUE, 0, 0)
    ELSE Outcome(FALSE, "scored", TRUE, TRUE,
                 wer(s.ref, s.hyp, s.dist).value, Ratio(s.time, s.dur))

benchOther == <<fs, recorder, audio_file, encryption_key, status, alert, buttons,
                workers, nextBase, nextKey, last, phase, er, dl, tw, cr, pureVars>>

NoReport == [text |-> "", wer |-> 0, rtf |-> 0, divided |-> FALSE]

\* benchmark_dataset(dataset, ...): samples = get_random_subset(...)
BmCall(samples) ==
    /\ bm.pc = "idle"
    /\ bm' = [pc |-> "loop", samples |-> samples, i |-> 1, results |-> <<>>,
              successful |-> 0, total_wer |-> 0, total_rtf |-> 0,
              calls |-> {}, divs |-> {},
              how |-> "none", returned |-> <<>>, report |-> NoReport]
    /\ UNCHANGED benchOther

\* an accumulation that forgets to count the sample
AccumulateUncounted(b, t) ==
    [b EXCEPT !.results = Append(@, t),
              !.total_wer = @ + t.wer,
              !.total_rtf = @ + t.rtf]

\* results.append(...); total_wer += error_rate; total_rtf += rtf; successful += 1
Accumulate(b, t) ==
    [b EXCEPT !.results = Append(@, t),
              !.total_wer = @ + t.wer,
              !.total_rtf = @ + t.rtf,
              !.successful = @ + 1]

\* one pass of `for i, sample in enumerate(samples)`
BmSample ==
    /\ bm.pc = "loop"
    /\ bm.i <= Len(bm.samples)
    /\ LET s == bm.samples[bm.i]
           o == process_sample(s)
           seen == [bm EXCEPT !.calls = IF o.called THEN @ \cup {bm.i} ELSE @,
                              !.divs = IF o.divided THEN @ \cup {bm.i} ELSE @]
       IN  bm' = IF ~s.audio \/ ~s.transcript THEN [bm EXCEPT !.i = @ + 1]
                 ELSE IF o.raised THEN [seen EXCEPT !.pc = "done", !.how = "raised"]
                 ELSE IF o.outcome = "None" THEN [seen EXCEPT !.i = @ + 1]
                 ELSE [Accumulate(seen, [audio_file |-> bm.i, hypothesis |-> bm.i,
                                         transcript |-> bm.i, wer |-> o.wer,
                                         time |-> s.time, rtf |-> o.rtf])
                         EXCEPT !.i = @ + 1]
    /\ UNCHANGED benchOther

\* the loop is over: print the averages or "No samples benchmarked.", return
BmReturn ==
    /\ bm.pc = "loop"
    /\ bm.i > Len(bm.samples)
    /\ bm' = [bm EXCEPT !.pc = "done", !.how = "returned", !.returned = bm.results,
                        !.report = IF bm.successful > 0
                                   THEN [text |-> "Average",
                                         wer |-> bm.total_wer \div bm.successful,
                                         rtf |-> bm.total_rtf \div bm.successful,
                                         divided |-> TRUE]
                                   ELSE [text |-> "No samples benchmarked.",
                                         wer |-> 0, rtf |-> 0, divided |-> FALSE]]
    /\ UNCHANGED benchOther

NextBench ==
    \/ /\ bm.pc = "idle"
       /\ \E n \in 0..MaxSamples : \E samples \in [1..n -> SampleKinds] : BmCall(samples)
    \/ BmSample
    \/ BmReturn

SpecBench == Init /\ [][NextBench]_vars

\* the samples of a run that can be scored, in order
RECURSIVE Scorable(_, _)
Scorable(samples, i) ==
    IF i > Len(samples) THEN <<>>
    ELSE IF /\ samples[i].audio /\ samples[i].transcript
            /\ process_sample(samples[i]).outcome = "scored"
         THEN <<i>> \o Scorable(samples, i + 1)
         ELSE Scorable(samples, i + 1)

\* the samples a list of result tuples is about
SamplesOf(results) == [k \in 1..Len(results) |-> results[k].audio_file]

\* C20: a failure while one sample is processed, an exception of the
\* transcription call or of the duration probe included, skips that sample
\* only: benchmark_dataset goes on and returns the results of every sample
\* that was scored.
C20_FailedSampleIsSkipped ==
    bm.pc = "done" =>
        (bm.how = "returned" /\ SamplesOf(bm.returned) = Scorable(bm.samples, 1))

\* C21: a sample whose normalized reference or hypothesis token list is empty
\* is skipped by process_sample: it is never among the results, so an empty
\* hypothesis against a non-empty reference is not recorded with WER 1.0.
C21_EmptyTokenListIsSkipped ==
    bm.pc # "idle" =>
        \A k \in 1..Len(bm.results) :
            /\ bm.samples[bm.results[k].audio_file].ref > 0
            /\ bm.samples[bm.results[k].audio_file].hyp > 0

\* the samples the loop has dealt with so far
Handled == IF bm.pc = "idle" THEN {} ELSE 1..(bm.i - 1)

\* a sample without audio file or transcript, or with a duration <= 0
Unusable(s) == ~s.audio \/ ~s.transcript \/ (~s.durRaises /\ s.dur <= 0)

\* C22: a sample whose audio locator or transcript is missing, or whose
\* duration is <= 0, is skipped without model_fn being invoked for it and
\* without the division by its duration; it adds nothing to results, sums or
\* count, and the loop goes on to the next sample.
C22_UnusableSampleIsSkipped ==
    bm.pc # "idle" =>
        /\ \A j \in 1..Len(bm.samples) :
              Unusable(bm.samples[j]) =>
                 /\ j \notin bm.calls
                 /\ j \notin bm.divs
                 /\ \A k \in 1..Len(bm.results) : bm.results[k].audio_file # j
        /\ (bm.pc = "done" /\ bm.how = "raised") => ~Unusable(bm.samples[bm.i])
        /\ (bm.successful = 0 /\ \A j \in Handled : Unusable(bm.samples[j])) =>
              (bm.total_wer = 0 /\ bm.total_rtf = 0 /\ bm.results = <<>>)

\* C22 happens: the run returned after a sample with duration 0, one without
\* audio and a scored one
C22_Witness ==
    /\ bm.pc = "done" /\ bm.how = "returned" /\ Len(bm.samples) = 3
    /\ \E j \in 1..3 : ~bm.samples[j].durRaises /\ bm.samples[j].dur = 0
                       /\ bm.samples[j].audio /\ bm.samples[j].transcript
    /\ \E j \in 1..3 : ~bm.samples[j].audio
    /\ bm.successful = 1 /\ bm.calls = {bm.results[1].audio_file}

RECURSIVE SumWer(_)
SumWer(results) ==
    IF results = <<>> THEN 0 ELSE Head(results).wer + SumWer(Tail(results))

RECURSIVE SumRtf(_)
SumRtf(results) ==
    IF results = <<>> THEN 0 ELSE Head(results).rtf + SumRtf(Tail(results))

\* C23: after every loop iteration successful = len(results) and total_wer /
\* total_rtf are the sums of the WER / RTF fields of the tuples in results,
\* which are in sample order; the averages are those sums over successful,
\* reported only when successful > 0; otherwise "No samples benchmarked." is
\* reported and nothing is divided.
C23_SumsMatchResults ==
    bm.pc # "idle" =>
        /\ bm.successful = Len(bm.results)
        /\ bm.total_wer = SumWer(bm.results)
        /\ bm.total_rtf = SumRtf(bm.results)
        /\ \A k \in 1..Len(bm.results) :
              /\ DOMAIN bm.results[k] = {"audio_file", "hypothesis", "transcript",
                                         "wer", "time", "rtf"}
              /\ bm.results[k].audio_file < bm.i
              /\ k > 1 => bm.results[k - 1].audio_file < bm.results[k].audio_file
        /\ (bm.pc = "done" /\ bm.how = "returned") =>
              IF Len(bm.results) > 0
              THEN /\ bm.report.text = "Average"
                   /\ bm.report.wer = SumWer(bm.results) \div Len(bm.results)
                   /\ bm.report.rtf = SumRtf(bm.results) \div Len(bm.results)
              ELSE /\ bm.report.text = "No samples benchmarked."
                   /\ ~bm.report.divided

\* C23 happens: two of three samples were scored, with different WER and RTF,
\* and the averages were reported
C23_Witness ==
    /\ bm.pc = "done" /\ bm.how = "returned"
    /\ Len(bm.samples) = 3 /\ bm.successful = 2
    /\ bm.results[1].wer # bm.results[2].wer
    /\ bm.results[1].rtf # bm.results[2].rtf
    /\ bm.report.text = "Average"

---------------------------------------------------------------------------
(* compare_medical_pipeline and compare_sample                             *)
(* (benchmarks/benchmark_medical.py), one sample per step.  A sample of a  *)
(* comparison is what both models meet (audio, transcript, duration) and   *)
(* what each model meets on it (base, ft: whether transcribe_audio raises, *)
(* its time, whether scoring raises, the token counts).  cp.ran is the     *)
(* list of process_sample calls made: the model and the audio file and     *)
(* transcript it was given.                                                *)

\* largest number of samples of a comparison run
MaxPairs == 2

\* what one model meets on a sample
ModelKinds ==
    {[modelRaises |-> FALSE, time |-> 1, scoreRaises |-> FALSE, dist |-> 0],
     [modelRaises |-> FALSE, time |-> 2, scoreRaises |-> FALSE, dist |-> 1],
     [modelRaises |-> TRUE, time |-> 1, scoreRaises |-> FALSE, dist |-> 0],
     [modelRaises |-> FALSE, time |-> 1, scoreRaises |-> TRUE, dist |-> 0]}

PairKinds ==
    {[audio |-> a, transcript |-> t, durRaises |-> FALSE, dur |-> 1,
      base |-> b, ft |-> f] :
        a \in {TRUE}, t \in {TRUE}, b \in ModelKinds, f \in ModelKinds}
    \cup
    {[audio |-> a, transcript |-> t, durRaises |-> r, dur |-> d,
      base |-> CHOOSE b \in ModelKinds : ~b.modelRaises /\ ~b.scoreRaises /\ b.dist = 0,
      ft |-> CHOOSE b \in ModelKinds : ~b.modelRaises /\ ~b.scoreRaises /\ b.dist = 1] :
        <<a, t, r, d>> \in {<<FALSE, TRUE, FALSE, 1>>, <<TRUE, FALSE, FALSE, 1>>,
                            <<TRUE, TRUE, TRUE, 1>>, <<TRUE, TRUE, FALSE, 0>>}}

\* the sample as process_sample sees it when run for one model
ForModel(c, m) ==
    [audio |-> c.audio, transcript |-> c.transcript, durRaises |-> c.durRaises,
     dur |-> c.dur, modelRaises |-> m.modelRaises, time |-> m.time,
     scoreRaises |-> m.scoreRaises, ref |-> 2, hyp |-> 2, dist |-> m.dist]

\* compare_sample(sample, baseline_model, fine_tuned_model, ...): i is the
\* sample's place in the dataset
compare_sample(c, i) ==
    LET b == process_sample(ForModel(c, c.base))
        f == process_sample(ForModel(c, c.ft))
        ranB == <<[model |-> "baseline", audio_file |-> i, transcript |-> i]>>
        ranF == <<[model |-> "fine_tuned", audio_file |-> i, transcript |-> i]>>
    IN  IF ~c.audio \/ ~c.transcript
        THEN [raised |-> FALSE, comp |-> "None", ran |-> <<>>, base |-> b, ft |-> f]
        ELSE IF b.raised
        THEN [raised |-> TRUE, comp |-> "none", ran |-> ranB, base |-> b, ft |-> f]
        ELSE IF f.raised
        THEN [raised |-> TRUE, comp |-> "none", ran |-> ranB \o ranF,
              base |-> b, ft |-> f]
        ELSE IF b.outcome = "None" \/ f.outcome = "None"
        THEN [raised |-> FALSE, comp |-> "None", ran |-> ranB \o ranF,
              base |-> b, ft |-> f]
        ELSE [raised |-> FALSE, comp |-> "pair", ran |-> ranB \o ranF,
              base |-> b, ft |-> f]

compareOther == <<fs, recorder, audio_file, encryption_key, status, alert, buttons,
                  workers, nextBase, nextKey, last, phase, er, dl, tw, cr, bm,
                  sb, ta, nz, sc>>

\* compare_medical_pipeline(...): samples = get_random_subset(dataset, max_samples)
CpCall(samples) ==
    /\ cp.pc = "idle"
    /\ cp' = [pc |-> "loop", samples |-> samples, i |-> 1, results |-> <<>>,
              count |-> 0, total_baseline_wer |-> 0, total_ft_wer |-> 0,
              ran |-> <<>>, how |-> "none", returned |-> <<>>]
    /\ UNCHANGED compareOther

\* one pass of `for i, sample in enumerate(samples, 1)`
CpSample ==
    /\ cp.pc = "loop"
    /\ cp.i <= Len(cp.samples)
    /\ LET c == compare_sample(cp.samples[cp.i], cp.i)
           seen == [cp EXCEPT !.ran = @ \o c.ran]
       IN  cp' = IF c.raised THEN [seen EXCEPT !.pc = "done", !.how = "raised"]
                 ELSE IF c.comp = "None" THEN [seen EXCEPT !.i = @ + 1]
                 ELSE [seen EXCEPT !.results =
                                       Append(@, [audio_file |-> cp.i,
                                                  transcript |-> cp.i,
                                                  baseline_wer |-> c.base.wer,
                                                  ft_wer |-> c.ft.wer]),
                                   !.total_baseline_wer = @ + c.base.wer,
                                   !.total_ft_wer = @ + c.ft.wer,
                                   !.count = @ + 1,
                                   !.i = @ + 1]
    /\ UNCHANGED compareOther

\* the loop is over: print the aggregated results, return results
CpReturn ==
    /\ cp.pc = "loop"
    /\ cp.i > Len(cp.samples)
    /\ cp' = [cp EXCEPT !.pc = "done", !.how = "returned", !.returned = cp.results]
    /\ UNCHANGED compareOther

NextCompare ==
    \/ /\ cp.pc = "idle"
       /\ \E n \in 0..MaxPairs : \E samples \in [1..n -> PairKinds] : CpCall(samples)
    \/ CpSample
    \/ CpReturn

SpecCompare == Init /\ [][NextCompare]_vars

\* a model produced a usable result for the sample
Usable(c, m) ==
    /\ c.audio /\ c.transcript /\ ~c.durRaises /\ c.dur > 0
    /\ ~m.modelRaises /\ ~m.scoreRaises

\* C24: both models are run on the same samples (same audio file and
\* transcript); a sample is in the comparison results and totals if and only
\* if both models produced a usable result for it; when either model's
\* processing fails, the sample is left out for both and the comparison goes
\* on with the next sample.
C24_PairedOrExcluded ==
    cp.pc = "done" =>
        /\ cp.how = "returned"
        /\ {cp.returned[k].audio_file : k \in 1..Len(cp.returned)}
              = {j \in 1..Len(cp.samples) :
                    /\ Usable(cp.samples[j], cp.samples[j].base)
                    /\ Usable(cp.samples[j], cp.samples[j].ft)}
        /\ cp.count = Len(cp.returned)
        /\ \A j \in 1..Len(cp.samples) :
              (cp.samples[j].audio /\ cp.samples[j].transcript) =>
                 \A m \in {"baseline", "fine_tuned"} :
                    \E k \in 1..Len(cp.ran) :
                       cp.ran[k] = [model |-> m, audio_file |-> j, transcript |-> j]

---------------------------------------------------------------------------
(* get_random_subset (benchmarks/benchmark_utils.py).  The dataset is the  *)
(* caller's list object; the random module's generator is process-wide     *)
(* state (sb.rng) that random.seed sets and random.shuffle advances.  The  *)
(* generator is a small linear congruential one standing for the Mersenne  *)
(* twister: what matters is that its output is a function of its state.    *)
(* Each call is recorded with the positions of the dataset its result was  *)
(* taken from.                                                             *)

\* largest dataset
MaxItems == 3
\* number of generator states
RngMod == 16
\* calls of get_random_subset in one run
MaxSubsetCalls == 2
\* values time.time() takes
MaxTime == 1

\* max_samples = None
None == -100

Items == {"a", "b"}

\* the generator's next state
RngNext(r) == (r * 5 + 3) % RngMod

\* random.seed(time.time()) left undone: the generator keeps its state
ReseedKept(rng, t) == rng

\* random.seed(time.time())
Reseed(rng, t) == t % RngMod

\* swap x[i] and x[j]
Swap(x, i, j) == [x EXCEPT ![i] = x[j], ![j] = x[i]]

\* random.shuffle(x): for i in reversed(range(1, len(x))): j = randbelow(i + 1);
\* x[i], x[j] = x[j], x[i].  Indices here are one more than Python's.
RECURSIVE ShuffleFrom(_, _, _)
ShuffleFrom(x, i, rng) ==
    IF i < 2 THEN [list |-> x, rng |-> rng]
    ELSE LET r == RngNext(rng)
             j == ((r \div 2) % i) + 1
         IN  ShuffleFrom(Swap(x, i, j), i - 1, r)

shuffle(x, rng) == ShuffleFrom(x, Len(x), rng)

\* samples[:m]
Slice(x, m) ==
    LET n == IF m >= 0 THEN (IF m < Len(x) THEN m ELSE Len(x))
             ELSE (IF Len(x) + m > 0 THEN Len(x) + m ELSE 0)
    IN  SubSeq(x, 1, n)

\* the test of line 111 with >= for >
ExceedsOrEquals(n, max_samples) == max_samples # None /\ n >= max_samples

\* max_samples is not None and len(samples) > max_samples
Exceeds(n, max_samples) == max_samples # None /\ n > max_samples

\* get_random_subset(dataset, max_samples) called at time t with the
\* generator in state rng: the positions of the dataset returned, in order,
\* the dataset object afterwards and the generator afterwards
get_random_subset(dataset, max_samples, t, rng) ==
    LET samples == [k \in 1..Len(dataset) |-> k]
        seeded == Reseed(rng, t)
        shuffled == shuffle(samples, seeded)
    IN  IF Exceeds(Len(samples), max_samples)
        THEN [positions |-> Slice(shuffled.list, max_samples),
              dataset |-> dataset, rng |-> shuffled.rng]
        ELSE [positions |-> samples, dataset |-> dataset, rng |-> rng]

subsetOther == <<fs, recorder, audio_file, encryption_key, status, alert, buttons,
                 workers, nextBase, nextKey, last, phase, er, dl, tw, cr, bm,
                 cp, ta, nz, sc>>

\* the program has a dataset, a max_samples setting and a generator seeded
\* by the interpreter
SbLoad(dataset, max_samples, rng) ==
    /\ sb.pc = "idle"
    /\ sb' = [pc |-> "loaded", dataset |-> dataset, max_samples |-> max_samples,
              rng |-> rng, calls |-> <<>>]
    /\ UNCHANGED subsetOther

\* one call of get_random_subset(dataset, max_samples), made at time t
SbCall(t) ==
    /\ sb.pc = "loaded"
    /\ Len(sb.calls) < MaxSubsetCalls
    /\ LET r == get_random_subset(sb.dataset, sb.max_samples, t, sb.rng)
       IN  sb' = [sb EXCEPT
                    !.dataset = r.dataset,
                    !.rng = r.rng,
                    !.calls = Append(@, [dataset |-> sb.dataset,
                                         max_samples |-> sb.max_samples,
                                         time |-> t,
                                         rng |-> sb.rng,
                                         positions |-> r.positions,
                                         result |-> [k \in 1..Len(r.positions) |->
                                                        sb.dataset[r.positions[k]]],
                                         dataset_after |-> r.dataset,
                                         rng_after |-> r.rng])]
    /\ UNCHANGED subsetOther

NextSubset ==
    \/ /\ sb.pc = "idle"
       /\ \E n \in 0..MaxItems : \E dataset \in [1..n -> Items] :
             \E m \in {None} \cup (-1..(MaxItems + 1)) :
                \E rng \in 0..(RngMod - 1) : SbLoad(dataset, m, rng)
    \/ \E t \in 0..MaxTime : SbCall(t)

SpecSubset == Init /\ [][NextSubset]_vars

SubsetCalls == IF sb.pc = "idle" THEN {} ELSE {sb.calls[k] : k \in 1..Len(sb.calls)}

\* C25: when max_samples is None or max_samples >= len(dataset), the call
\* returns all items of the dataset in their original order and nothing is
\* shuffled: the generator is neither seeded nor advanced.
C25_WholeDatasetInOrder ==
    \A c \in SubsetCalls :
        (c.max_samples = None \/ c.max_samples >= Len(c.dataset)) =>
            /\ c.result = c.dataset
            /\ c.positions = [k \in 1..Len(c.dataset) |-> k]
            /\ c.rng_after = c.rng

\* a call with max_samples equal to the size of a dataset of several
\* different items
C25_Witness ==
    \E c \in SubsetCalls :
        /\ c.max_samples = Len(c.dataset)
        /\ Len(c.dataset) >= 2
        /\ c.dataset[1] # c.dataset[2]

\* C26: for every integer max_samples smaller than len(dataset), the call
\* returns exactly max_samples items, each from a distinct position of the
\* dataset.
C26_ExactlyMaxSamples ==
    \A c \in SubsetCalls :
        (c.max_samples # None /\ c.max_samples < Len(c.dataset)) =>
            /\ Len(c.result) = c.max_samples
            /\ \A i, j \in 1..Len(c.positions) :
                  i # j => c.positions[i] # c.positions[j]
            /\ \A i \in 1..Len(c.positions) :
                  /\ c.positions[i] \in 1..Len(c.dataset)
                  /\ c.result[i] = c.dataset[c.positions[i]]

\* C27: two calls with equal dataset and max_samples made while time.time()
\* returns the same value return the same subset in the same order, whatever
\* the generator's state was, and a call leaves the dataset as it was.
C27_SameSeedSameSubset ==
    /\ \A c \in SubsetCalls : c.dataset_after = c.dataset
    /\ \A c, d \in SubsetCalls :
          (c.dataset = d.dataset /\ c.max_samples = d.max_samples /\ c.time = d.time)
              => (c.result = d.result /\ c.positions = d.positions)

\* two shuffling calls with the same arguments and time, the second one
\* finding the generator in another state than the first did
C27_Witness ==
    /\ sb.pc = "loaded"
    /\ Len(sb.calls) = 2
    /\ sb.calls[1].max_samples = sb.calls[2].max_samples
    /\ sb.calls[1].time = sb.calls[2].time
    /\ Exceeds(Len(sb.calls[1].dataset), sb.calls[1].max_samples)
    /\ sb.calls[1].max_samples >= 2
    /\ sb.calls[1].rng # sb.calls[2].rng
    /\ sb.calls[1].positions # <<1, 2>>

---------------------------------------------------------------------------
(* transcribe_audio (transcribe_app/transcription.py), step by step:       *)
(* validate_audio_file, validate_model, the import of the family's         *)
(* package, loading and running the model, the check of the result.  A     *)
(* file is what os.path and wave.open find at the path: wave.open raises   *)
(* wave.Error on a file that is not RIFF/WAVE and EOFError on one that     *)
(* ends before the RIFF header does (an empty file).                       *)

WHISPER_MODELS == {"tiny", "small"}
HUGGINGFACE_MODELS == {"bqtsio/whisper-large-rad"}

\* model ids tried, and those among them that contain a slash
ModelNames == {"tiny", "small", "medium", "bqtsio/whisper-large-rad", "other/model"}
WithSlash == {"bqtsio/whisper-large-rad", "other/model"}

\* the lowest sample rate accepted
MinRate == 8000

WavFiles ==
    {[exists |-> TRUE, isfile |-> TRUE, wav |-> "ok",
      nframes |-> n, sampwidth |-> w, framerate |-> r] :
        n \in {0, 1}, w \in 1..4, r \in {MinRate - 1, MinRate, 2 * MinRate}}

NotWav(exists, isfile, wav) ==
    [exists |-> exists, isfile |-> isfile, wav |-> wav,
     nframes |-> 0, sampwidth |-> 0, framerate |-> 0]

AudioFiles ==
    WavFiles \cup {NotWav(FALSE, FALSE, "none"), NotWav(TRUE, FALSE, "none"),
                   NotWav(TRUE, TRUE, "Error"), NotWav(TRUE, TRUE, "EOFError")}

\* validate_model(model_name): "ok" or the exception raised
validate_model(model_name) ==
    IF model_name \in WithSlash
    THEN (IF model_name \notin HUGGINGFACE_MODELS THEN "ValueError" ELSE "ok")
    ELSE (IF model_name \notin WHISPER_MODELS THEN "ValueError" ELSE "ok")

\* validate_audio_file(audio_file): "ok" or the exception raised
validate_audio_file(f) ==
    IF ~f.exists THEN "FileNotFoundError"
    ELSE IF ~f.isfile THEN "RuntimeError"
    ELSE IF f.wav = "Error" THEN "RuntimeError"
    ELSE IF f.wav = "EOFError" THEN "EOFError"
    ELSE IF f.nframes = 0 THEN "RuntimeError"
    ELSE IF f.sampwidth \notin {2, 4} THEN "RuntimeError"
    ELSE IF f.framerate < MinRate THEN "RuntimeError"
    ELSE "ok"

transcribeOther == <<fs, recorder, audio_file, encryption_key, status, alert, buttons,
                     workers, nextBase, nextKey, last, phase, er, dl, tw, cr, bm,
                     cp, sb, nz, sc>>

TaRaise(e, at) == [ta EXCEPT !.pc = "done", !.error = e, !.at = at]

\* transcribe_audio(audio_file, model_name): the call and its log line
TaCall(f, model_name) ==
    /\ ta.pc = "idle"
    /\ ta' = [pc |-> "validate_audio", file |-> f, model_name |-> model_name,
              imported |-> FALSE, invoked |-> FALSE, error |-> "none",
              at |-> "none", transcription |-> "None", returned |-> "None"]
    /\ UNCHANGED transcribeOther

\* validate_audio_file(audio_file)
TaValidateAudio ==
    /\ ta.pc = "validate_audio"
    /\ LET v == validate_audio_file(ta.file)
       IN  ta' = IF v = "ok" THEN [ta EXCEPT !.pc = "validate_model"]
                 ELSE TaRaise(v, "validate_audio_file")
    /\ UNCHANGED transcribeOther

\* validate_model(model_name)
TaValidateModel ==
    /\ ta.pc = "validate_model"
    /\ LET v == validate_model(ta.model_name)
       IN  ta' = IF v = "ok" THEN [ta EXCEPT !.pc = "import"]
                 ELSE TaRaise(v, "validate_model")
    /\ UNCHANGED transcribeOther

\* from transformers import pipeline / import whisper
TaImport ==
    /\ ta.pc = "import"
    /\ \E ok \in BOOLEAN :
          ta' = IF ok THEN [ta EXCEPT !.pc = "model", !.imported = TRUE]
                ELSE TaRaise("ImportError", "import")
    /\ UNCHANGED transcribeOther

\* pipeline(...) and pipe(audio_file), or whisper.load_model(...) and
\* model.transcribe(audio_file): the model is loaded and run; an exception
\* of either becomes a RuntimeError
TaModel ==
    /\ ta.pc = "model"
    /\ \E out \in {"raise", "", "text"} :
          ta' = IF out = "raise"
                THEN [TaRaise("RuntimeError", "model") EXCEPT !.invoked = TRUE]
                ELSE [ta EXCEPT !.pc = "result", !.invoked = TRUE,
                                !.transcription = out]
    /\ UNCHANGED transcribeOther

\* if not transcription ...: raise RuntimeError; return transcription.strip()
TaResult ==
    /\ ta.pc = "result"
    /\ ta' = IF ta.transcription = "" THEN TaRaise("RuntimeError", "result")
             ELSE [ta EXCEPT !.pc = "done", !.returned = ta.transcription]
    /\ UNCHANGED transcribeOther

NextTranscribe ==
    \/ \E f \in AudioFiles : \E m \in ModelNames : TaCall(f, m)
    \/ TaValidateAudio
    \/ TaValidateModel
    \/ TaImport
    \/ TaModel
    \/ TaResult

SpecTranscribe == Init /\ [][NextTranscribe]_vars

\* the model id is in the registry of its family
InRegistry(m) ==
    \/ m \in WithSlash /\ m \in HUGGINGFACE_MODELS
    \/ m \notin WithSlash /\ m \in WHISPER_MODELS

\* the file is a WAV with > 0 frames, 16- or 32-bit samples, >= 8000 Hz
WellFormedWav(f) ==
    /\ f.exists /\ f.isfile /\ f.wav = "ok"
    /\ f.nframes > 0
    /\ f.sampwidth * 8 \in {16, 32}
    /\ f.framerate >= 8000

\* the errors validate_audio_file is declared to raise
InvalidAudioErrors == {"FileNotFoundError", "RuntimeError"}

\* C28 (first part): a model is imported, loaded or run only when the file
\* is a well-formed WAV and the model id is in its family's registry.
C28_ModelOnlyAfterValidation ==
    (ta.pc # "idle" /\ (ta.invoked \/ ta.imported \/ ta.pc \in {"import", "model"}))
        => (WellFormedWav(ta.file) /\ InRegistry(ta.model_name))

\* C28: no model is invoked before both validations passed; a call with a
\* file that is missing or not a well-formed WAV fails with an invalid-audio
\* error, and a call with a well-formed file and a model id outside its
\* family's registry fails with the unsupported-model error (ValueError).
C28_ValidatedBeforeModel ==
    /\ C28_ModelOnlyAfterValidation
    /\ (ta.pc = "done" /\ ~WellFormedWav(ta.file)) =>
          (ta.error \in InvalidAudioErrors /\ ta.at = "validate_audio_file")
    /\ (ta.pc = "done" /\ WellFormedWav(ta.file) /\ ~InRegistry(ta.model_name)) =>
          (ta.error = "ValueError" /\ ta.at = "validate_model")

---------------------------------------------------------------------------
(* The normalization pipelines: create_transformations                     *)
(* (benchmarks/benchmark_utils.py), get_transformations and the minimal    *)
(* transform (benchmarks/benchmark.py).  A string is a sequence of         *)
(* characters; each jiwer transform is the function on strings it          *)
(* computes; a pipeline is their composition in the order of the Compose   *)
(* list and yields the list of words of its input.                         *)

\* longest input string tried exhaustively
MaxChars == 4

HelloHyphen == <<"h", "e", "l", "l", "o", "-", "w", "o", "r", "l", "d">>
HelloHyphenTokens ==
    <<<<"h", "e", "l", "l", "o">>, <<"w", "o", "r", "l", "d">>>>

HelloComma ==
    <<"h", "e", "l", "l", "o", ",", " ", "w", "o", "r", "l", "d", "!">>
HelloCommaTokens ==
    <<<<"h", "e", "l", "l", "o">>, <<"w", "o", "r", "l", "d">>>>

ButIfIPlay ==
    <<"B", "u", "t", " ", "i", "f", " ", "I", " ", "p", "l", "a", "y", " ",
    "y", "o", "u", "-", "a", "r", "o", "u", "n", "d", ",", " ", "w", "i",
    "l", "l", " ", "y", "o", "u", " ", "c", "o", "m", "e", "?">>
ButIfIPlayTokens ==
    <<<<"b", "u", "t">>, <<"i", "f">>, <<"i">>, <<"p", "l", "a", "y">>,
    <<"y", "o", "u">>, <<"a", "r", "o", "u", "n", "d">>, <<"w", "i", "l",
    "l">>, <<"y", "o", "u">>, <<"c", "o", "m", "e">>>>

HelloUpper == <<"H", "E", "L", "L", "O", " ", "W", "O", "R", "L", "D">>
HelloUpperTokens ==
    <<<<"h", "e", "l", "l", "o">>, <<"w", "o", "r", "l", "d">>>>

LowerLetters ==
    <<"a", "b", "c", "d", "e", "f", "g", "h", "i", "j", "k", "l", "m", "n",
    "o", "p", "q", "r", "s", "t", "u", "v", "w", "x", "y", "z">>
UpperLetters ==
    <<"A", "B", "C", "D", "E", "F", "G", "H", "I", "J", "K", "L", "M", "N",
    "O", "P", "Q", "R", "S", "T", "U", "V", "W", "X", "Y", "Z">>

\* the characters of the exhaustive inputs: an upper-case and a lower-case
\* letter, hyphen, en dash, em dash, a comma, a space and a tab
Chars == {"A", "b", "-", "endash", "emdash", ",", " ", "tab"}

\* characters matched by \s
Whitespace == {" ", "tab"}

\* characters matched by [-–—]
Dashes == {"-", "endash", "emdash"}

\* characters of a Unicode punctuation category
Punctuation == Dashes \cup {",", ".", "!", "?", "'"}

\* ToLowerCase: s.lower()
ToLowerCase(s) ==
    [i \in 1..Len(s) |->
        IF \E k \in 1..Len(UpperLetters) : UpperLetters[k] = s[i]
        THEN LowerLetters[CHOOSE k \in 1..Len(UpperLetters) : UpperLetters[k] = s[i]]
        ELSE s[i]]

\* SubstituteRegexes({r"[-–—]": " "}): re.sub of every match
SubstituteRegexes(s) ==
    [i \in 1..Len(s) |-> IF s[i] \in Dashes THEN " " ELSE s[i]]

IsPunctuation(c) == c \in Punctuation

\* a removal of the first punctuation character only
RemovePunctuationOnce(s) ==
    IF \E i \in 1..Len(s) : IsPunctuation(s[i])
    THEN LET i == CHOOSE i \in 1..Len(s) :
                     IsPunctuation(s[i]) /\ \A j \in 1..(i - 1) : ~IsPunctuation(s[j])
         IN  SubSeq(s, 1, i - 1) \o SubSeq(s, i + 1, Len(s))
    ELSE s

\* RemovePunctuation: every punctuation character is deleted
RemovePunctuation(s) == SelectSeq(s, LAMBDA c : ~IsPunctuation(c))

\* the last index of the run of whitespace that starts at i
RunEnd(s, i) ==
    CHOOSE j \in i..Len(s) :
        /\ \A k \in i..j : s[k] \in Whitespace
        /\ (j = Len(s) \/ s[j + 1] \notin Whitespace)

\* RemoveMultipleSpaces: re.sub(r"\s\s+", " ", s), from index i on
RECURSIVE CollapseFrom(_, _)
CollapseFrom(s, i) ==
    IF i > Len(s) THEN <<>>
    ELSE IF s[i] \in Whitespace /\ RunEnd(s, i) > i
    THEN <<" ">> \o CollapseFrom(s, RunEnd(s, i) + 1)
    ELSE <<s[i]>> \o CollapseFrom(s, i + 1)

RemoveMultipleSpaces(s) == CollapseFrom(s, 1)

\* Strip: s.strip()
Strip(s) ==
    LET inner == {i \in 1..Len(s) : s[i] \notin Whitespace}
    IN  IF inner = {} THEN <<>>
        ELSE SubSeq(s, CHOOSE i \in inner : \A j \in inner : i <= j,
                       CHOOSE i \in inner : \A j \in inner : i >= j)

\* the words of s from index i on, cur being the word begun, split at the
\* characters of delimiters; empty words are dropped
RECURSIVE WordsFrom(_, _, _, _)
WordsFrom(s, i, cur, delimiters) ==
    IF i > Len(s) THEN (IF cur = <<>> THEN <<>> ELSE <<cur>>)
    ELSE IF s[i] \in delimiters
    THEN (IF cur = <<>> THEN <<>> ELSE <<cur>>) \o WordsFrom(s, i + 1, <<>>, delimiters)
    ELSE WordsFrom(s, i + 1, Append(cur, s[i]), delimiters)

\* ReduceToListOfListOfWords: [w for w in s.split(" ") if len(w) >= 1]
ReduceToListOfListOfWords(s) == WordsFrom(s, 1, <<>>, {" "})

\* x.split() of the minimal transform: split at runs of whitespace
SplitWhitespace(s) == WordsFrom(s, 1, <<>>, Whitespace)

\* the hypothesis pipeline with the dashes replaced after the punctuation
\* is removed
hypothesis_transform_late(s) ==
    ReduceToListOfListOfWords(Strip(RemoveMultipleSpaces(
        SubstituteRegexes(RemovePunctuation(ToLowerCase(s))))))

hypothesis_transform(s) ==
    ReduceToListOfListOfWords(Strip(RemoveMultipleSpaces(
        RemovePunctuation(SubstituteRegexes(ToLowerCase(s))))))

reference_transform(s) ==
    ReduceToListOfListOfWords(Strip(RemoveMultipleSpaces(
        RemovePunctuation(ToLowerCase(s)))))

minimal_transform(s) == SplitWhitespace(Strip(RemoveMultipleSpaces(s)))

\* Python values the transforms are called with: a str, or a list of values
Str(s) == [type |-> "str", value |-> s]
List(items) == [type |-> "list", items |-> items]

\* a jiwer transform called with x: process_string on a str, and on a list
\* the list of process_string of its elements
RemoveMultipleSpacesCall(x) ==
    IF x.type = "str" THEN Str(RemoveMultipleSpaces(x.value))
    ELSE List([k \in 1..Len(x.items) |-> Str(RemoveMultipleSpaces(x.items[k].value))])

StripCall(x) ==
    IF x.type = "str" THEN Str(Strip(x.value))
    ELSE List([k \in 1..Len(x.items) |-> Str(Strip(x.items[k].value))])

\* lambda x: x.split() if isinstance(x, str) else x
SplitIfStr(x) ==
    IF x.type = "str"
    THEN LET words == SplitWhitespace(x.value)
         IN  List([k \in 1..Len(words) |-> Str(words[k])])
    ELSE x

\* minimal_transform(x): Compose calls RemoveMultipleSpaces, Strip and the
\* lambda in turn, each with the value the one before returned
minimal_compose(x) ==
    SplitIfStr(StripCall(RemoveMultipleSpacesCall(x)))

\* " ".join(tokens)
RECURSIVE Join(_)
Join(tokens) ==
    IF tokens = <<>> THEN <<>>
    ELSE IF Len(tokens) = 1 THEN tokens[1]
    ELSE tokens[1] \o <<" ">> \o Join(Tail(tokens))

normOther == <<fs, recorder, audio_file, encryption_key, status, alert, buttons,
               workers, nextBase, nextKey, last, phase, er, dl, tw, cr, bm,
               cp, sb, ta, sc>>

\* a transcript arrives
NzCall(s) ==
    /\ nz.pc = "idle"
    /\ nz' = [pc |-> "text", s |-> s]
    /\ UNCHANGED normOther

\* each pipeline is applied to the transcript
NzTransform ==
    /\ nz.pc = "text"
    /\ nz' = [pc |-> "tokens", s |-> nz.s,
              reference |-> reference_transform(nz.s),
              hypothesis |-> hypothesis_transform(nz.s),
              minimal |-> minimal_transform(nz.s),
              minimal_of_list |-> minimal_compose(List(<<Str(nz.s)>>))]
    /\ UNCHANGED normOther

\* each pipeline is applied again, to its own tokens joined by single spaces
NzAgain ==
    /\ nz.pc = "tokens"
    /\ nz' = [pc |-> "again", s |-> nz.s,
              reference |-> nz.reference,
              hypothesis |-> nz.hypothesis,
              minimal |-> nz.minimal,
              minimal_of_list |-> nz.minimal_of_list,
              reference2 |-> reference_transform(Join(nz.reference)),
              hypothesis2 |-> hypothesis_transform(Join(nz.hypothesis)),
              minimal2 |-> minimal_transform(Join(nz.minimal))]
    /\ UNCHANGED normOther

Examples == {HelloHyphen, HelloComma, ButIfIPlay, HelloUpper}

NextNorm ==
    \/ /\ nz.pc = "idle"
       /\ \E n \in 0..MaxChars : \E s \in [1..n -> Chars] : NzCall(s)
    \/ \E s \in Examples : NzCall(s)
    \/ NzTransform
    \/ NzAgain

SpecNorm == Init /\ [][NextNorm]_vars

\* C29: each pipeline applied to its own output, the tokens joined by
\* single spaces, yields the same token list.
C29_PipelinesAreIdempotent ==
    nz.pc = "again" =>
        /\ nz.reference2 = nz.reference
        /\ nz.hypothesis2 = nz.hypothesis
        /\ nz.minimal2 = nz.minimal

\* a second pass over tokens that the first pass got by removing
\* punctuation, folding case and collapsing whitespace
C29_Witness ==
    /\ nz.pc = "again"
    /\ \E i, j \in 1..Len(nz.s) : i < j /\ nz.s[i] = "," /\ nz.s[j] = ","
    /\ \E i \in 1..Len(nz.s) : nz.s[i] = "A"
    /\ Len(nz.reference) = 1
    /\ Len(nz.minimal) = 1
    /\ nz.minimal # nz.reference

\* no token holds a dash, an upper-case letter or a space
CleanTokens(tokens) ==
    \A k \in 1..Len(tokens) : \A i \in 1..Len(tokens[k]) :
        /\ tokens[k][i] \notin Dashes
        /\ tokens[k][i] # " "
        /\ \A u \in 1..Len(UpperLetters) : tokens[k][i] # UpperLetters[u]

\* C30: the hypothesis pipeline turns every dash into a word boundary before
\* the punctuation is removed: the tokens of a string with a dash in it are
\* the tokens of what precedes the dash followed by the tokens of what
\* follows it, all lower-case, and the three examples yield their tokens.
C30_DashSplitsTokens ==
    nz.pc \in {"tokens", "again"} =>
        /\ CleanTokens(nz.hypothesis)
        /\ \A i \in 1..Len(nz.s) :
              nz.s[i] \in Dashes =>
                 nz.hypothesis = hypothesis_transform(SubSeq(nz.s, 1, i - 1))
                                    \o hypothesis_transform(SubSeq(nz.s, i + 1, Len(nz.s)))
        /\ nz.s = HelloHyphen => nz.hypothesis = HelloHyphenTokens
        /\ nz.s = HelloComma => nz.hypothesis = HelloCommaTokens
        /\ nz.s = ButIfIPlay => nz.hypothesis = ButIfIPlayTokens

\* the hyphenated example has been normalized into two tokens
C30_Witness ==
    /\ nz.pc = "tokens"
    /\ nz.s = HelloHyphen
    /\ Len(nz.hypothesis) = 2
    /\ Len(nz.reference) = 1

\* the input holds no dash-like character
NoDash(s) == \A i \in 1..Len(s) : s[i] \notin Dashes

\* every token is non-empty and holds no upper-case letter, no punctuation
\* and no whitespace
WordTokens(tokens) ==
    \A k \in 1..Len(tokens) :
        /\ tokens[k] # <<>>
        /\ \A i \in 1..Len(tokens[k]) :
              /\ tokens[k][i] \notin Punctuation
              /\ tokens[k][i] \notin Whitespace
              /\ \A u \in 1..Len(UpperLetters) : tokens[k][i] # UpperLetters[u]

\* C31 (first part): on an input without a dash-like character the
\* reference and the hypothesis pipeline yield the same token list.
C31_SameWithoutDash ==
    (nz.pc \in {"tokens", "again"} /\ NoDash(nz.s)) => nz.reference = nz.hypothesis

\* C31: on an input without a dash-like character the reference and the
\* hypothesis pipeline yield the same token list, whose tokens are
\* lower-case, non-empty and free of punctuation and whitespace;
\* 'HELLO WORLD' yields [hello, world].
C31_ReferenceIsHypothesisWithoutDash ==
    (nz.pc \in {"tokens", "again"} /\ NoDash(nz.s)) =>
        /\ nz.reference = nz.hypothesis
        /\ WordTokens(nz.reference)
        /\ nz.s = HelloUpper => nz.reference = HelloUpperTokens

\* the words of text: its maximal runs of characters that are not whitespace
WordsOf(text) ==
    LET starts == {i \in 1..Len(text) :
                      text[i] \notin Whitespace /\ (i = 1 \/ text[i - 1] \in Whitespace)}
        EndOf(i) == CHOOSE j \in i..Len(text) :
                       /\ \A k \in i..j : text[k] \notin Whitespace
                       /\ (j = Len(text) \/ text[j + 1] \in Whitespace)
        Nth(n) == CHOOSE i \in starts : Cardinality({j \in starts : j < i}) = n - 1
    IN  [n \in 1..Cardinality(starts) |-> SubSeq(text, Nth(n), EndOf(Nth(n)))]

\* C32: the minimal pipeline applied to [text] yields, as its first element,
\* the list of the whitespace-separated words of text, letter case and
\* punctuation unchanged.
C32_MinimalYieldsWords ==
    nz.pc \in {"tokens", "again"} =>
        /\ nz.minimal_of_list.type = "list"
        /\ Len(nz.minimal_of_list.items) = 1
        /\ nz.minimal_of_list.items[1].type = "list"
        /\ LET words == WordsOf(nz.s)
           IN  nz.minimal_of_list.items[1] =
                  List([k \in 1..Len(words) |-> Str(words[k])])

\* C32 (applied to the text itself): the minimal pipeline called with text
\* rather than [text] yields the words of text.
C32_MinimalOfStringYieldsWords ==
    nz.pc \in {"tokens", "again"} => nz.minimal = WordsOf(nz.s)

---------------------------------------------------------------------------
(* The scoring of process_sample (benchmarks/benchmark_utils.py, lines     *)
(* 90-100) as the local benchmark calls it (benchmarks/benchmark_local.py):*)
(* the transcript goes through the reference pipeline, the hypothesis      *)
(* through the hypothesis pipeline, and jiwer's wer scores the two token   *)
(* lists.  wer is the word error rate: the word-level edit distance over   *)
(* the number of reference words, in hundredths; it raises on an empty     *)
(* reference.  Any exception of the scoring makes process_sample return    *)
(* None.                                                                   *)

\* longest transcript and hypothesis tried exhaustively
MaxText == 3

ScoreChars == {"a", "b", " ", "-"}

HelloWorldText ==
    <<"h", "e", "l", "l", "o", " ", "w", "o", "r", "l", "d">>
HelloEarthText ==
    <<"h", "e", "l", "l", "o", " ", "e", "a", "r", "t", "h">>

Min3(x, y, z) ==
    IF x <= y /\ x <= z THEN x ELSE IF y <= z THEN y ELSE z

\* the word-level edit distance jiwer computes
RECURSIVE EditDistance(_, _)
EditDistance(a, b) ==
    IF a = <<>> THEN Len(b)
    ELSE IF b = <<>> THEN Len(a)
    ELSE IF Head(a) = Head(b) THEN EditDistance(Tail(a), Tail(b))
    ELSE 1 + Min3(EditDistance(Tail(a), b),
                  EditDistance(a, Tail(b)),
                  EditDistance(Tail(a), Tail(b)))

\* jiwer.wer(reference, hypothesis) on two lists of words
jiwer_wer(reference, hypothesis) ==
    IF reference = <<>> THEN [raised |-> TRUE, value |-> 0]
    ELSE [raised |-> FALSE,
          value |-> Ratio(EditDistance(reference, hypothesis), Len(reference))]

\* the call with its two arguments exchanged
score_swapped(ref_words, hyp_words) == jiwer_wer(hyp_words, ref_words)

\* error_rate = wer([ref_words], [hyp_words])
score(ref_words, hyp_words) == jiwer_wer(ref_words, hyp_words)

scoreOther == <<fs, recorder, audio_file, encryption_key, status, alert, buttons,
                workers, nextBase, nextKey, last, phase, er, dl, tw, cr, bm,
                cp, sb, ta, nz>>

\* process_sample has the transcript and the model's hypothesis
ScCall(transcript, hypothesis) ==
    /\ sc.pc = "idle"
    /\ sc' = [pc |-> "texts", transcript |-> transcript, hypothesis |-> hypothesis]
    /\ UNCHANGED scoreOther

\* ref_words = ref_transform_fn([transcript])[0];
\* hyp_words = hyp_transform_fn([hypothesis])[0]
ScNormalize ==
    /\ sc.pc = "texts"
    /\ sc' = [pc |-> "words", transcript |-> sc.transcript,
              hypothesis |-> sc.hypothesis,
              ref_words |-> reference_transform(sc.transcript),
              hyp_words |-> hypothesis_transform(sc.hypothesis)]
    /\ UNCHANGED scoreOther

\* error_rate = wer(...); except Exception: return None.  rejected: the
\* library raises for a reason of its own
ScScore(rejected) ==
    /\ sc.pc = "words"
    /\ LET w == score(sc.ref_words, sc.hyp_words)
       IN  sc' = [pc |-> "done", transcript |-> sc.transcript,
                  hypothesis |-> sc.hypothesis,
                  ref_words |-> sc.ref_words, hyp_words |-> sc.hyp_words,
                  rejected |-> rejected,
                  outcome |-> IF rejected \/ w.raised THEN "None" ELSE "scored",
                  error_rate |-> IF rejected \/ w.raised THEN 0 ELSE w.value]
    /\ UNCHANGED scoreOther

NextScore ==
    \/ /\ sc.pc = "idle"
       /\ \E n, m \in 0..MaxText :
             \E transcript \in [1..n -> ScoreChars], hypothesis \in [1..m -> ScoreChars] :
                ScCall(transcript, hypothesis)
    \/ ScCall(HelloWorldText, HelloEarthText)
    \/ ScNormalize
    \/ \E rejected \in BOOLEAN : ScScore(rejected)

SpecScore == Init /\ [][NextScore]_vars

\* the order-preserving partial matchings of the positions of a with those
\* of b
Matchings(a, b) ==
    {M \in SUBSET ((1..Len(a)) \X (1..Len(b))) :
        \A p, q \in M :
            \/ p = q
            \/ p[1] < q[1] /\ p[2] < q[2]
            \/ q[1] < p[1] /\ q[2] < p[2]}

\* deletions + insertions + substitutions of the edit script of a matching
EditsOf(M, a, b) ==
    (Len(a) - Cardinality(M)) + (Len(b) - Cardinality(M))
        + Cardinality({p \in M : a[p[1]] # b[p[2]]})

\* the least number of word edits that turn a into b
MinEdits(a, b) ==
    CHOOSE d \in 0..(Len(a) + Len(b)) :
        /\ \E M \in Matchings(a, b) : EditsOf(M, a, b) = d
        /\ \A M \in Matchings(a, b) : EditsOf(M, a, b) >= d

Tok(c) == <<c>>
HelloTok == <<"h", "e", "l", "l", "o">>

C40_IdenticalTextScoresZero ==
    (sc.pc = "done" /\ sc.outcome = "scored" /\ sc.transcript = sc.hypothesis)
        => sc.error_rate = 0

\* C40 (without dashes): a hypothesis whose text is the transcript's scores
\* WER 0 when the text holds no dash-like character.
C40_IdenticalTextWithoutDashScoresZero ==
    (sc.pc = "done" /\ sc.outcome = "scored" /\ sc.transcript = sc.hypothesis
       /\ NoDash(sc.transcript))
        => sc.error_rate = 0

---------------------------------------------------------------------------
(* Further properties of the RecordingManager (checked under SpecManager). *)

\* C34 (a recording in progress): after a stop_recording that found a
\* recording in progress, however it ended, the manager holds no audio
\* source, its temporary file handle is closed and recording_start_time is
\* cleared; the handle is closed before the file is opened for the rewrite.
C34_CleanupAfterRunningStop ==
    (last.op = "stop_recording" /\ last.before.audio_source # NoSource) =>
        /\ recorder.audio_source = NoSource
        /\ ~recorder.temp_open
        /\ ~recorder.recording_start_time
        /\ \A k \in 1..Len(last.events) :
              last.events[k] = "open_wb" =>
                 (k > 1 /\ last.events[k - 1] = "close")

\* C34: after stop_recording returns or raises by any path the manager holds
\* no audio source, its temporary file handle is closed and
\* recording_start_time is cleared, and the handle is closed before the file
\* is opened for the rewrite.
C34_CleanupAfterStop ==
    last.op = "stop_recording" =>
        /\ recorder.audio_source = NoSource
        /\ ~recorder.temp_open
        /\ ~recorder.recording_start_time
        /\ \A k \in 1..Len(last.events) :
              last.events[k] = "open_wb" =>
                 (k > 1 /\ last.events[k - 1] = "close")

---------------------------------------------------------------------------
(* Further properties of the controller (checked under Spec).              *)

\* C35: between handlers, audio_file is None if and only if encryption_key
\* is None.
C35_FileAndKeyTogether ==
    (audio_file = NoFile) <=> (encryption_key = NoKey)

\* a stop that failed after an earlier recording had been given a key
C35_Witness ==
    /\ last.op = "handle_stop" /\ last.outcome = "failed"
    /\ nextKey # NoKey
    /\ audio_file = NoFile


\* C36: while a worker is running, the decrypted file it was given is still on
\* disk: no handler of the controller, and no cleanup run for another worker,
\* has removed it.
C36_RunningWorkerKeepsItsFile ==
    \A i \in 1..Len(workers) : Exists(fs, workers[i].file)


\* The controller with Qt's delivery of a finished thread's `finished`
\* signal: a started worker's run() returns and the connected
\* cleanup_decrypted_file is eventually called (gui.py:286-289).
WorkerFinishes ==
    \E i \in 1..MaxWorkers, outs \in Schedules(RemoveEnv) : worker_finished(i, outs)

SpecCleanup == Init /\ [][Next]_vars /\ WF_vars(WorkerFinishes)

\* the names handle_transcribe can decrypt an encrypted recording to
DecryptedPaths ==
    {DecryptedName(EncryptedName(TempName(b))) : b \in 1..MaxRecordings}

\* handle_transcribe has just written the decrypted file p (the worker was
\* started on it, or could not be started)
Decrypted(p) ==
    /\ last.op = "handle_transcribe"
    /\ last.outcome \in {"started", "start_error"}
    /\ last.dec = p

\* C37: every decrypted file handle_transcribe created is eventually removed
\* from disk, whether its worker ran to the end or could not be started.
C37_DecryptedFileEventuallyRemoved ==
    \A p \in DecryptedPaths : Decrypted(p) ~> ~Exists(fs, p)


\* C38: no handle_record or handle_stop step leaves an encrypted recording on
\* disk that audio_file does not refer to: the recording audio_file referred
\* to before the step, and the one the step wrote, is the one it refers to
\* afterwards, so that handle_secure_delete can still reach it.
C38_RecordingStaysReferenced ==
    [][last'.op \in {"handle_record", "handle_stop"} =>
          \A p \in DOMAIN fs' :
             (fs'[p].kind = "cipher" /\ (p = audio_file \/ ~Exists(fs, p)))
                => p = audio_file']_vars


---------------------------------------------------------------------------
(* Further properties of the TranscriptionWorker (checked under            *)
(* SpecWorker).                                                            *)

\* the positions of the log that hold a terminal signal
Terminal ==
    {i \in 1..Len(tw.log) :
        tw.log[i].sig \in {"transcription_complete", "transcription_error"}}

\* the values of the model_progress signals emitted before position i
ProgressBefore(i) ==
    LET earlier == SelectSeq(SubSeq(tw.log, 1, i - 1),
                             LAMBDA e : e.sig = "model_progress")
    IN  [k \in 1..Len(earlier) |-> earlier[k].val]

\* C39: a run() during which stop() is not called emits at most one terminal
\* signal, and exactly one once it has ended; transcription_complete comes
\* only with a non-empty transcript and after model_progress 0, 50, 100.
C39_OneTerminalSignal ==
    (tw.pc # "idle" /\ tw.stop = "no") =>
        /\ Cardinality(Terminal) <= 1
        /\ tw.pc = "done" => Cardinality(Terminal) = 1
        /\ \A i \in 1..Len(tw.log) :
              tw.log[i].sig = "transcription_complete" =>
                 /\ tw.transcript = "text"
                 /\ ProgressBefore(i) = <<0, 50, 100>>

\* a run that was not cancelled has ended with transcription_complete
C39_Witness ==
    /\ tw.pc = "done" /\ tw.stop = "no"
    /\ \E i \in Terminal : tw.log[i].sig = "transcription_complete"

=============================================================================
